---- MODULE Spec2Model ----
(***************************************************************************)
(* A model of the salary calculator's rule loader (rules-loader.js) and    *)
(* computation engine (salary-engine.js).                                  *)
(*                                                                         *)
(* JavaScript objects live in a heap: a sequence of objects, an object a   *)
(* function from its keys to values, a value a pair <<tag, payload>>.      *)
(* A reference is <<"ref", i>> with i an index of the heap, so that two    *)
(* objects sharing a nested object share the index, and an assignment to a *)
(* field through one of them is seen through the other, as in the program. *)
(* Arrays are never written by the program; an array is a value           *)
(* <<"arr", elements>> whose object elements are literals <<"obj", fields>>.*)
(*                                                                         *)
(* A number is <<"num", <<n, d>>>>, the fraction n / d in lowest terms.    *)
(***************************************************************************)
EXTENDS Integers, Sequences, FiniteSets, TLC

VARIABLES
    heap,         \* the JavaScript objects reachable by the program
    rulesCache,   \* rulesCache: country code -> the parsed document
    calls,        \* the invocations of loadCountryRules / buildTaxContext
    started,      \* how many invocations were made so far
    DEBUG_STRICT, \* window.DEBUG_STRICT
    pristine,     \* history: every loaded document's objects as parsed
    firstLoaded,  \* history: code -> the document its first successful load returned
    mergeIn,      \* arguments of the deepMerge call under test
    mergeOut,     \* its return value, <<"none", 0>> before the call
    contribIn,    \* arguments of the computeContributionsAnnual call under test
    contribOut,   \* what it returned
    taxIn,        \* the rules computeTaxByRules is called with
    taxRuns,      \* history: the calls of computeTaxByRules and their results
    lastContext,  \* the context the last successful build returned, null before
    built,        \* history: the last buildTaxContext call and its outcome
    salary,       \* history: the last computeSalary call and its outcome
    computes,     \* how many computeSalary calls were made so far
    combined,     \* history: the computeSalaryWithContext call and its outcome
    registryObj,  \* app.js: the object `registry`, method name -> function
    registrations \* history: the register calls made after the page loaded

loaderVars == <<rulesCache, calls, started, DEBUG_STRICT, pristine, firstLoaded>>
mergeVars == <<mergeIn, mergeOut>>
partVars == <<contribIn, contribOut, taxIn, taxRuns>>
engineVars == <<lastContext, built, salary, computes, combined>>
registryVars == <<registryObj, registrations>>
vars == <<heap, loaderVars, mergeVars, partVars, engineVars, registryVars>>

(***************************************************************************)
(* Bounds of the model.                                                    *)
(***************************************************************************)
MaxDepth == 3     \* nesting depth of the objects handed to deepMerge
MaxSlots == 2     \* invocations of the loader in flight at the same time
MaxCalls == 3     \* invocations of the loader in one run
MaxRuns == 2      \* calls of computeTaxByRules compared with each other
MaxBuilds == 2    \* buildTaxContext calls on a cached document
MaxComputes == 1  \* computeSalary calls in one run
MaxRegistrations == 3 \* register calls after the page loaded

(***************************************************************************)
(* JavaScript values.                                                      *)
(***************************************************************************)
\* A number is a fraction <<n, d>> in lowest terms with d > 0; an array is
\* the sequence of its elements; an object literal inside an array, which no
\* code ever assigns to, is the function from its keys to its values.
Undef == <<"undef", 0>>
Null == <<"null", 0>>
Num(n) == <<"num", <<n, 1>>>>
Str(s) == <<"str", s>>
Bool(b) == <<"bool", b>>
Arr(elements) == <<"arr", elements>>
Obj(fields) == <<"obj", fields>>
Ref(i) == <<"ref", i>>
NoValue == <<"none", 0>>

IsRef(v) == v[1] = "ref"
IsArr(v) == v[1] = "arr"
IsNum(v) == v[1] = "num"
IsStr(v) == v[1] = "str"

\* v && typeof v === 'object'
IsObject(v) == v[1] \in {"ref", "obj", "arr"}

\* JavaScript truthiness: !v is ~Truthy(v).
Truthy(v) ==
    CASE v[1] = "ref" -> TRUE
      [] v[1] = "obj" -> TRUE
      [] v[1] = "arr" -> TRUE
      [] v[1] = "num" -> v[2][1] # 0
      [] v[1] = "str" -> v[2] # ""
      [] v[1] = "bool" -> v[2]
      [] OTHER -> FALSE

\* a || b
Or(a, b) == IF Truthy(a) THEN a ELSE b

\* The empty object {}.
EmptyObj == [k \in {} |-> Undef]

\* v[key] for an object v; undefined when v has no such key.
Get(h, v, key) ==
    IF IsRef(v) /\ key \in DOMAIN h[v[2]] THEN h[v[2]][key]
    ELSE IF v[1] = "obj" /\ key \in DOMAIN v[2] THEN v[2][key]
    ELSE Undef

\* Object.keys(v)
KeysOf(h, v) ==
    IF IsRef(v) THEN DOMAIN h[v[2]]
    ELSE IF v[1] = "obj" THEN DOMAIN v[2]
    ELSE {}

\* A new object: the heap with it, and its index.
Alloc(h, obj) == [h |-> Append(h, obj), id |-> Len(h) + 1]

\* obj[key] = val, the object being heap[id].
SetField(h, id, key, val) ==
    [h EXCEPT ![id] = [k \in DOMAIN h[id] \cup {key} |->
                          IF k = key THEN val ELSE h[id][k]]]

(***************************************************************************)
(* deepMerge (rules-loader.js).                                            *)
(***************************************************************************)
\* typeof v === 'object' && v && !Array.isArray(v)
IsPlainObject(v) == IsRef(v)

\* A faulty copy: the result is the base object itself.
ShallowCopyAliased(h, base) == [h |-> h, id |-> base[2]]

\* const result = { ...base }: a new object with base's own fields.
ShallowCopy(h, base) == Alloc(h, h[base[2]])

RECURSIVE deepMerge(_, _, _)
RECURSIVE MergeKeys(_, _, _, _)

\* A faulty merge step: the override's value always replaces the base's.
MergeValueReplacing(h, bv, ov) == [h |-> h, v |-> ov]

\* The value stored under a key: the recursive merge when both sides are
\* non-array objects, the override's value otherwise.
MergeValue(h, bv, ov) ==
    IF IsPlainObject(bv) /\ IsPlainObject(ov)
    THEN deepMerge(h, bv, ov)
    ELSE [h |-> h, v |-> ov]

\* Object.keys(override).forEach(...), over the keys ks still to visit.
MergeKeys(h, rid, override, ks) ==
    IF ks = {} THEN [h |-> h, v |-> Ref(rid)]
    ELSE LET key == CHOOSE k \in ks : TRUE
             m == MergeValue(h, Get(h, Ref(rid), key), Get(h, override, key))
         IN MergeKeys(SetField(m.h, rid, key, m.v), rid, override, ks \ {key})

deepMerge(h, base, override) ==
    IF ~Truthy(override) THEN [h |-> h, v |-> base]
    ELSE IF ~Truthy(base) THEN [h |-> h, v |-> override]
    ELSE LET r == ShallowCopy(h, base)
         IN MergeKeys(r.h, r.id, override, KeysOf(h, override))

(***************************************************************************)
(* Conversions (String, toUpperCase, trim, Number).                        *)
(***************************************************************************)
Digit(d) ==
    CASE d = 0 -> "0" [] d = 1 -> "1" [] d = 2 -> "2" [] d = 3 -> "3"
      [] d = 4 -> "4" [] d = 5 -> "5" [] d = 6 -> "6" [] d = 7 -> "7"
      [] d = 8 -> "8" [] d = 9 -> "9"

RECURSIVE IntToStr(_)
IntToStr(n) ==
    IF n < 0 THEN "-" \o IntToStr(0 - n)
    ELSE IF n < 10 THEN Digit(n)
    ELSE IntToStr(n \div 10) \o Digit(n % 10)

\* String(v)
String(v) ==
    CASE v[1] = "str" -> v[2]
      [] v[1] = "num" -> IntToStr(v[2][1])    \* of a whole number
      [] v[1] = "bool" -> IF v[2] THEN "true" ELSE "false"
      [] v[1] = "null" -> "null"
      [] v[1] = "undef" -> "undefined"
      [] OTHER -> "[object Object]"

\* s.toUpperCase(), on the strings the model's callers pass.
toUpperCase(s) ==
    CASE s = "de" -> "DE"
      [] s = "ii" -> "II"
      [] s = " iii" -> " III"
      [] OTHER -> s

\* s.trim(), on the strings the model's callers pass.
trim(s) ==
    CASE s = " III" -> "III"
      [] OTHER -> s


(***************************************************************************)
(* JavaScript numbers.  The program computes in binary floating point; the *)
(* model computes the same expressions exactly, on fractions, so that a    *)
(* sum is the sum and a rounding happens only where roundCurrency is       *)
(* called.  Infinity and NaN are handled where the code can produce them.  *)
(***************************************************************************)
RECURSIVE GCD(_, _)
GCD(a, b) == IF b = 0 THEN a ELSE GCD(b, a % b)

\* n / d in lowest terms, d > 0.
Q(n, d) ==
    LET g == GCD(IF n < 0 THEN 0 - n ELSE n, d)
    IN <<n \div g, d \div g>>

Zero == Q(0, 1)

\* x + y, x - y, x * y, x / y
QAdd(x, y) ==
    LET g == GCD(x[2], y[2])
    IN Q(x[1] * (y[2] \div g) + y[1] * (x[2] \div g), (x[2] \div g) * y[2])

QSub(x, y) == QAdd(x, <<0 - y[1], y[2]>>)

QMul(x, y) ==
    LET a == Q(x[1], y[2])
        b == Q(y[1], x[2])
    IN <<a[1] * b[1], a[2] * b[2]>>

QDiv(x, y) ==
    IF y[1] > 0 THEN QMul(x, <<y[2], y[1]>>) ELSE QMul(x, <<0 - y[2], 0 - y[1]>>)

\* x < y, x <= y, Math.min, Math.max, Math.floor
QLt(x, y) == QSub(x, y)[1] < 0
QLe(x, y) == QSub(x, y)[1] <= 0
QMin(x, y) == IF QLt(y, x) THEN y ELSE x
QMax(x, y) == IF QLt(x, y) THEN y ELSE x
QFloor(x) == Q(x[1] \div x[2], 1)

\* The sum of the values of a function.
RECURSIVE QSum(_)
QSum(f) ==
    IF DOMAIN f = {} THEN Zero
    ELSE LET k == CHOOSE j \in DOMAIN f : TRUE
         IN QAdd(f[k], QSum([j \in DOMAIN f \ {k} |-> f[j]]))

\* Number.isFinite(Number(v)): a number, or a value Number() maps to 0 or 1;
\* undefined, objects and the strings callers pass other than '' give NaN.
IsFiniteNumber(v) == v[1] \in {"num", "null", "bool"} \/ v = Str("")

\* Number(v), where it is finite.
Number(v) ==
    IF v[1] = "num" THEN v[2]
    ELSE IF v = Bool(TRUE) THEN Q(1, 1)
    ELSE Zero

\* v == null
IsNullish(v) == v[1] \in {"undef", "null"}

RECURSIVE Pow10(_)
Pow10(d) == IF d = 0 THEN 1 ELSE 10 * Pow10(d - 1)

(***************************************************************************)
(* rules-loader.js: the rule files and loadCountryRules.                   *)
(***************************************************************************)
COUNTRY_FILE_MAP ==
    [c \in {"DE", "ES", "UK", "FR", "NL", "PL", "AT", "SI", "SE", "IT"} |->
        "rules-" \o c \o ".json"]

\* new RulesError(i18nKey, details): the key, details.cause, and whether
\* details carries a status.
RulesError(key, cause, status) == [i18nKey |-> key, cause |-> cause, status |-> status]
NoError == RulesError("", "", FALSE)

\* A JSON number with decimals, and a bracket of a schedule.
Dec(n, d) == <<"num", Q(n, d)>>

Bracket(upTo, rate) == Obj(("up_to" :> upTo) @@ ("rate" :> rate))

\* The rule documents a server may answer with, as the objects JSON.parse
\* builds of them; a reference counts from the document's first object.
\* The elements of an array, which the program never assigns to, stay in
\* the array.
\* Germany: a formula tariff, tax classes, a capped contribution, a levy on
\* the income tax.
DocDE ==
    << ("name" :> Str("Germany")) @@ ("currency" :> Str("EUR"))
           @@ ("years" :> Ref(2)),
       ("2026" :> Ref(3)),
       ("income_tax" :> Ref(4)) @@ ("tax_classes" :> Ref(13))
           @@ ("social_contributions" :> Ref(19)) @@ ("other_taxes" :> Ref(22)),
       ("type" :> Str("formula")) @@ ("formula" :> Ref(5))
           @@ ("allowances" :> Ref(12)),
       ("use_formula" :> Bool(TRUE)) @@ ("method" :> Str("de_estg_2026"))
           @@ ("parameters" :> Ref(6)),
       ("tariff" :> Ref(7)),
       ("basic_allowance" :> Num(12000)) @@ ("zone2_start" :> Num(17000))
           @@ ("zone3_start" :> Num(67000)) @@ ("zone4_start" :> Num(277000))
           @@ ("zone1" :> Ref(8)) @@ ("zone2" :> Ref(9)) @@ ("zone3" :> Ref(10))
           @@ ("zone4" :> Ref(11)),
       ("coeff_y" :> Num(900)) @@ ("offset" :> Num(1400)),
       ("coeff_y" :> Num(180)) @@ ("offset" :> Num(2400))
           @@ ("constant" :> Num(925)),
       ("rate" :> Dec(42, 100)) @@ ("offset" :> Num(10765)),
       ("rate" :> Dec(45, 100)) @@ ("offset" :> Num(19075)),
       ("employment_expense_flat" :> Num(1000)),
       ("I" :> Ref(14)) @@ ("II" :> Ref(15)) @@ ("III" :> Ref(16)),
       EmptyObj,
       ("taxable_income_adjustment" :> Num(-4260)),
       ("income_tax" :> Ref(17)),
       ("allowances" :> Ref(18)),
       ("other_fixed" :> Num(12000)),
       ("pension" :> Ref(20)) @@ ("care" :> Ref(21)),
       ("applies" :> Bool(TRUE)) @@ ("employee_rate" :> Dec(1, 10))
           @@ ("employer_rate" :> Dec(1, 10)) @@ ("ceiling" :> Num(50000))
           @@ ("deductible_for_tax" :> Bool(TRUE)),
       ("applies" :> Bool(FALSE)) @@ ("employee_rate" :> Dec(18, 1000)),
       ("solidarity" :> Ref(23)),
       ("basis" :> Str("income_tax")) @@ ("rate" :> Dec(55, 1000)) >>

\* Germany, the formula without a parameters object.
DocDEWithoutParameters ==
    << ("name" :> Str("Germany")) @@ ("currency" :> Str("EUR"))
           @@ ("years" :> Ref(2)),
       ("2026" :> Ref(3)),
       ("income_tax" :> Ref(4)) @@ ("tax_classes" :> Ref(7))
           @@ ("social_contributions" :> Ref(13)) @@ ("other_taxes" :> Ref(16)),
       ("type" :> Str("formula")) @@ ("formula" :> Ref(5))
           @@ ("allowances" :> Ref(6)),
       ("use_formula" :> Bool(TRUE)) @@ ("method" :> Str("de_estg_2026")),
       ("employment_expense_flat" :> Num(1000)),
       ("I" :> Ref(8)) @@ ("II" :> Ref(9)) @@ ("III" :> Ref(10)),
       EmptyObj,
       ("taxable_income_adjustment" :> Num(-4260)),
       ("income_tax" :> Ref(11)),
       ("allowances" :> Ref(12)),
       ("other_fixed" :> Num(12000)),
       ("pension" :> Ref(14)) @@ ("care" :> Ref(15)),
       ("applies" :> Bool(TRUE)) @@ ("employee_rate" :> Dec(1, 10))
           @@ ("employer_rate" :> Dec(1, 10)) @@ ("ceiling" :> Num(50000))
           @@ ("deductible_for_tax" :> Bool(TRUE)),
       ("applies" :> Bool(FALSE)) @@ ("employee_rate" :> Dec(18, 1000)),
       ("solidarity" :> Ref(17)),
       ("basis" :> Str("income_tax")) @@ ("rate" :> Dec(55, 1000)) >>

\* Spain: a national and a regional schedule per region, allowances, a
\* deductible contribution and one that is not.
DocES ==
    << ("name" :> Str("Spain")) @@ ("currency" :> Str("EUR")) @@ ("years" :> Ref(2)),
       ("2026" :> Ref(3)),
       ("regions" :> Ref(4)) @@ ("default_region" :> Str("madrid"))
           @@ ("income_tax" :> Ref(9)) @@ ("social_contributions" :> Ref(11)),
       ("madrid" :> Ref(5)),
       ("income_tax" :> Ref(6)),
       ("national" :> Ref(7)) @@ ("regional" :> Ref(8)),
       ("type" :> Str("progressive"))
           @@ ("brackets" :> Arr(<<Bracket(Num(12450), Dec(1, 10)), Bracket(Num(20200), Dec(12, 100)), Bracket(Null, Dec(15, 100))>>)),
       ("type" :> Str("progressive"))
           @@ ("brackets" :> Arr(<<Bracket(Num(13362), Dec(8, 100)), Bracket(Null, Dec(1, 10))>>)),
       ("allowances" :> Ref(10)),
       ("basic_tax_free" :> Num(5550)),
       ("social_security" :> Ref(12)) @@ ("training" :> Ref(13)),
       ("applies" :> Bool(TRUE)) @@ ("employee_rate" :> Dec(6, 100))
           @@ ("employer_rate" :> Dec(2, 10)) @@ ("floor" :> Num(15000))
           @@ ("ceiling" :> Num(56000)) @@ ("deductible_for_tax" :> Bool(TRUE)),
       ("applies" :> Bool(TRUE)) @@ ("employee_rate" :> Dec(1, 1000))
           @@ ("employer_rate" :> Dec(6, 1000)) >>

\* Austria: special payments, a tiered unemployment rate, an entry in the
\* other list.
DocAT ==
    << ("name" :> Str("Austria")) @@ ("currency" :> Str("EUR"))
           @@ ("years" :> Ref(2)),
       ("2026" :> Ref(3)),
       ("income_tax" :> Ref(4)) @@ ("calculation_flags" :> Ref(5))
           @@ ("special_payments" :> Ref(6)) @@ ("social_contributions" :> Ref(9)),
       ("type" :> Str("progressive"))
           @@ ("brackets" :> Arr(<<Bracket(Num(13000), Num(0)), Bracket(Num(21000), Dec(2, 10)), Bracket(Num(35000), Dec(3, 10)), Bracket(Null, Dec(4, 10))>>)),
       ("rounding_mode" :> Str("nearest_cent")),
       ("enabled" :> Bool(TRUE)) @@ ("regular_months" :> Num(12))
           @@ ("default_salary_months" :> Num(14)) @@ ("allowance_annual" :> Num(620))
           @@ ("income_tax" :> Ref(7)) @@ ("social_contributions" :> Ref(8)),
       ("type" :> Str("flat")) @@ ("flat_rate" :> Dec(6, 100)),
       ("regular_ceiling_annual" :> Num(77400))
           @@ ("special_ceiling_annual" :> Num(12900)),
       ("health" :> Ref(10)) @@ ("unemployment" :> Ref(11))
           @@ ("other" :> Arr(<<Obj(("label" :> Str("Chamber")) @@ ("applies" :> Bool(TRUE)) @@ ("employee_rate" :> Dec(5, 1000)) @@ ("ceiling" :> Num(90000)))>>)),
       ("applies" :> Bool(TRUE)) @@ ("employee_rate" :> Dec(4, 100))
           @@ ("employer_rate" :> Dec(4, 100)) @@ ("ceiling" :> Num(90000))
           @@ ("deductible_for_tax" :> Bool(TRUE)),
       ("applies" :> Bool(TRUE)) @@ ("employee_rate" :> Dec(3, 100))
           @@ ("ceiling" :> Num(30000))
           @@ ("low_income_employee_rate_tiers" :> Arr(<<Obj(("up_to" :> Num(2225)) @@ ("employee_rate" :> Num(0))), Obj(("up_to" :> Num(2427)) @@ ("employee_rate" :> Dec(1, 100))), Obj(("up_to" :> Num(2630)) @@ ("employee_rate" :> Dec(2, 100)))>>))
           @@ ("deductible_for_tax" :> Bool(TRUE)) >>

\* Austria with a named scheme besides health, pension and unemployment.
DocATWithCare ==
    [DocAT EXCEPT ![9] = ("care" :> Ref(12)) @@ DocAT[9]]
        \o << ("applies" :> Bool(TRUE)) @@ ("employee_rate" :> Dec(1, 100))
                  @@ ("employer_rate" :> Dec(2, 100)) >>

\* The Netherlands: a tax credit that phases out, a levy the employer bears
\* and a capped levy on the taxable income.
DocNL ==
    << ("name" :> Str("Netherlands")) @@ ("currency" :> Str("EUR"))
           @@ ("years" :> Ref(2)),
       ("2026" :> Ref(3)),
       ("income_tax" :> Ref(4)) @@ ("social_contributions" :> Ref(7))
           @@ ("other_taxes" :> Ref(9)),
       ("type" :> Str("progressive"))
           @@ ("brackets" :> Arr(<<Bracket(Num(38000), Dec(36, 100)), Bracket(Null, Dec(495, 1000))>>))
           @@ ("tax_credits" :> Ref(5)),
       ("general" :> Ref(6)),
       ("max" :> Num(3000)) @@ ("phaseout_start" :> Num(25000))
           @@ ("phaseout_end" :> Num(75000)) @@ ("phaseout_rate_per_eur" :> Dec(6, 100)),
       ("insurance" :> Ref(8)),
       ("applies" :> Bool(TRUE)) @@ ("employee_rate" :> Dec(27, 1000))
           @@ ("employer_rate" :> Dec(67, 1000)) @@ ("ceiling" :> Num(70000)),
       ("payroll_levy" :> Ref(10)) @@ ("media_levy" :> Ref(11)),
       ("basis" :> Str("gross")) @@ ("rate" :> Dec(1, 100))
           @@ ("incidence" :> Str("Employer")),
       ("basis" :> Str("taxable_income")) @@ ("rate" :> Dec(2, 1000))
           @@ ("cap" :> Num(50)) >>

\* The Netherlands with a levy on a basis the engine does not know.
DocNLWithNetLevy ==
    [DocNL EXCEPT ![9] = ("net_levy" :> Ref(12)) @@ DocNL[9]]
        \o << ("basis" :> Str("net")) @@ ("rate" :> Dec(5, 1000)) >>

\* Sweden: amounts in whole kronor, a flat tax.
DocSE ==
    << ("name" :> Str("Sweden")) @@ ("currency" :> Str("SEK"))
           @@ ("years" :> Ref(2)),
       ("2026" :> Ref(3)),
       ("income_tax" :> Ref(4)) @@ ("calculation_flags" :> Ref(5))
           @@ ("social_contributions" :> Ref(6)) @@ ("other_taxes" :> Ref(8)),
       ("type" :> Str("flat")) @@ ("flat_rate" :> Dec(3, 10)),
       ("rounding_mode" :> Str("nearest_cent")) @@ ("currency_decimals" :> Num(0)),
       ("pension" :> Ref(7)),
       ("applies" :> Bool(TRUE)) @@ ("employee_rate" :> Dec(7, 100))
           @@ ("employer_rate" :> Dec(3, 10)),
       ("burial_fee" :> Ref(9)),
       ("basis" :> Str("taxable_income")) @@ ("rate" :> Dec(5, 1000)) >>

\* France: the professional deduction within a band, allowances, a
\* deductible contribution and one that is not.
DocFR ==
    << ("name" :> Str("France")) @@ ("currency" :> Str("EUR"))
           @@ ("years" :> Ref(2)),
       ("2026" :> Ref(3)),
       ("income_tax" :> Ref(4)) @@ ("social_contributions" :> Ref(7)),
       ("type" :> Str("progressive"))
           @@ ("brackets" :> Arr(<<Bracket(Num(11500), Num(0)), Bracket(Num(29300), Dec(11, 100)), Bracket(Null, Dec(3, 10))>>))
           @@ ("professional_deduction" :> Ref(5)) @@ ("allowances" :> Ref(6)),
       ("enabled" :> Bool(TRUE)) @@ ("rate" :> Dec(1, 10)) @@ ("min" :> Num(500))
           @@ ("max" :> Num(3000)),
       ("basic_tax_free" :> Num(1000)),
       ("pension" :> Ref(8)) @@ ("csg" :> Ref(9)),
       ("applies" :> Bool(TRUE)) @@ ("employee_rate" :> Dec(8, 100))
           @@ ("employer_rate" :> Dec(15, 100)) @@ ("deductible_for_tax" :> Bool(TRUE)),
       ("applies" :> Bool(TRUE)) @@ ("employee_rate" :> Dec(2, 100)) >>

\* France, the professional deduction switched off.
DocFRWithoutDeduction ==
    [DocFR EXCEPT ![5] = ("enabled" :> Bool(FALSE)) @@ ("rate" :> Dec(1, 10))
                             @@ ("min" :> Num(500)) @@ ("max" :> Num(3000))]

\* A JSON object without a years field.
DocNoYears == << ("name" :> Str("Nowhere")) >>

\* What response.json() may yield for a country's file: a parse failure, a
\* JSON scalar, an object without years, or a rule document.
Bodies(code) ==
    {"invalid_json", "scalar", "no_years"}
    \cup (CASE code = "DE" -> {"DE", "DE_no_parameters"}
            [] code = "ES" -> {"ES"}
            [] code = "AT" -> {"AT"}
            [] code = "NL" -> {"NL"}
            [] code = "SE" -> {"SE"}
            [] code = "FR" -> {"FR", "FR_no_deduction"}
            [] OTHER -> {})

BodyObjects(body) ==
    CASE body = "DE" -> DocDE
      [] body = "DE_no_parameters" -> DocDEWithoutParameters
      [] body = "ES" -> DocES
      [] body = "AT" -> DocAT
      [] body = "NL" -> DocNL
      [] body = "SE" -> DocSE
      [] body = "FR" -> DocFR
      [] body = "FR_no_deduction" -> DocFRWithoutDeduction
      [] body = "AT_care" -> DocATWithCare
      [] body = "NL_net_levy" -> DocNLWithNetLevy
      [] body = "no_years" -> DocNoYears
      [] OTHER -> << >>

Relocate(obj, off) ==
    [k \in DOMAIN obj |-> IF obj[k][1] = "ref" THEN Ref(obj[k][2] + off) ELSE obj[k]]

\* The objects of a parsed body, new in the heap, and the value parsed: the
\* first of them, or a number where the body holds no object.
Parsed(h, objects) ==
    IF objects = << >> THEN [h |-> h, v |-> Num(7)]
    ELSE [h |-> h \o [i \in 1..Len(objects) |-> Relocate(objects[i], Len(h))],
          v |-> Ref(Len(h) + 1)]

\* json = await response.json()
ParseBody(h, body) == Parsed(h, BodyObjects(body))

(***************************************************************************)
(* rules-loader.js: buildTaxContext.                                       *)
(***************************************************************************)
\* The outcome of buildTaxContext after the document is loaded: the heap it
\* leaves, and the context returned or the error thrown.
Thrown(h, key, cause) ==
    [h |-> h, ok |-> FALSE, err |-> RulesError(key, cause, FALSE), ctx |-> NoValue]

\* v || {}
OrEmpty(h, v) ==
    IF Truthy(v) THEN [h |-> h, v |-> v]
    ELSE [h |-> Append(h, EmptyObj), v |-> Ref(Len(h) + 1)]

\* resolveYearRules: years[String(year)], falsy when the year is missing.
resolveYearRules(h, countryRules, year) ==
    Get(h, Get(h, countryRules, "years"), String(year))

\* if (... && !incomeTaxEffective.formula.parameters)
\*     incomeTaxEffective.formula.parameters = {};
EnsureParameters(h, eff) ==
    LET f == Get(h, eff, "formula")
    IN IF /\ Truthy(eff)
          /\ Get(h, eff, "type") = Str("formula")
          /\ IsRef(f)
          /\ ~Truthy(Get(h, f, "parameters"))
       THEN SetField(Append(h, EmptyObj), f[2], "parameters", Ref(Len(h) + 1))
       ELSE h

\* incomeTaxEffective.formula.parameters = deepMerge(
\*     incomeTaxEffective.formula.parameters,
\*     { taxable_income_adjustment: classOverrides.taxable_income_adjustment });
InjectAdjustment(h, eff, classOverrides) ==
    LET adj == Get(h, classOverrides, "taxable_income_adjustment")
        f == Get(h, eff, "formula")
        p == Get(h, f, "parameters")
    IN IF /\ Truthy(classOverrides)
          /\ adj[1] = "num"
          /\ Truthy(eff)
          /\ IsRef(f)
          /\ Truthy(p)
       THEN LET lit == Alloc(h, "taxable_income_adjustment" :> adj)
                m == deepMerge(lit.h, p, Ref(lit.id))
            IN SetField(m.h, f[2], "parameters", m.v)
       ELSE h

\* JSON.stringify(a) === JSON.stringify(b), for values built of the same
\* documents (the keys of a merged object keep the order of its base).
RECURSIVE SameJson(_, _, _)
SameJson(h, a, b) ==
    IF a[1] # b[1] THEN FALSE
    ELSE IF a[1] = "ref"
         THEN /\ DOMAIN h[a[2]] = DOMAIN h[b[2]]
              /\ \A k \in DOMAIN h[a[2]] : SameJson(h, h[a[2]][k], h[b[2]][k])
         ELSE a[2] = b[2]

\* deepMerge(topLevel || {}, classOverrides.<key> || {}): the heap and the
\* merged value, and the base the merge started from.
MergeOverrides(h, topLevel, classOverrides, key) ==
    LET b == OrEmpty(h, topLevel)
        o == OrEmpty(b.h, Get(h, classOverrides, key))
        m == deepMerge(o.h, b.v, o.v)
    IN [h |-> m.h, v |-> m.v, base |-> b.v]

\* incomeTaxEffective after the two assignments to formula.parameters.
WithParameters(m, classOverrides) ==
    [h |-> InjectAdjustment(EnsureParameters(m.h, m.v), m.v, classOverrides),
     incomeTax |-> m.v, base |-> m.base]

\* socialContributionsEffective = deepMerge(...)
WithSocial(eff, m) ==
    [h |-> m.h, incomeTax |-> eff.incomeTax, base |-> eff.base, social |-> m.v]

\* otherTaxesEffective = deepMerge(...), and the comparison of the
\* signatures of the income tax rules before and after.
WithOther(eff, m) ==
    [h |-> m.h, incomeTax |-> eff.incomeTax, social |-> eff.social, other |-> m.v,
     noEffect |-> SameJson(m.h, eff.base, eff.incomeTax)]

ApplySocial(eff, classOverrides, socialTopLevel) ==
    WithSocial(eff, MergeOverrides(eff.h, socialTopLevel, classOverrides,
                                   "social_contributions"))

ApplyOther(eff, classOverrides, otherTopLevel) ==
    WithOther(eff, MergeOverrides(eff.h, otherTopLevel, classOverrides, "other_taxes"))

\* Step 4 of buildTaxContext for a recognized class: the three merges and
\* the two assignments to formula.parameters.
ApplyTaxClass(h, classOverrides, incomeTaxTopLevel, socialTopLevel, otherTopLevel) ==
    ApplyOther(
        ApplySocial(
            WithParameters(MergeOverrides(h, incomeTaxTopLevel, classOverrides,
                                          "income_tax"),
                           classOverrides),
            classOverrides, socialTopLevel),
        classOverrides, otherTopLevel)

\* calcMode.method
CalcMethod(h, countryCode, incomeTax) ==
    LET f == Get(h, incomeTax, "formula")
    IN IF /\ Truthy(incomeTax)
          /\ Get(h, incomeTax, "type") = Str("formula")
          /\ Truthy(f)
          /\ Truthy(Get(h, f, "method"))
       THEN String(Get(h, f, "method"))
       ELSE IF Truthy(incomeTax)
            THEN String(Or(Get(h, incomeTax, "type"), Str("unknown")))
            ELSE IF countryCode = "ES" THEN "es_dual_irpf" ELSE "none"

\* resolveSpainRegionIncomeTax(yearRules, region): the region's entry, a
\* falsy value when the error is thrown.
resolveSpainRegionIncomeTax(h, yearRules, region) ==
    LET regionKey == Or(region, Or(Get(h, yearRules, "default_region"), Null))
    IN IF ~Truthy(regionKey) THEN Undef
       ELSE Get(h, Get(h, yearRules, "regions"), String(regionKey))

\* Steps 5 and 6: the Spanish schedules, the context object and its
\* calcMode object.
AssembleContext(h, countryCode, countryRules, o, yearRules, incomeTaxEffective, social, other, flags) ==
    LET region == Or(o.region, Null)
        regionEntry == resolveSpainRegionIncomeTax(h, yearRules, region)
        regionTax == Get(h, regionEntry, "income_tax")
        spain == Alloc(h, ("nationalIncomeTax" :> Or(Get(h, regionTax, "national"), Null))
                          @@ ("regionalIncomeTax" :> Or(Get(h, regionTax, "regional"), Null)))
        h1 == IF countryCode = "ES" THEN spain.h ELSE h
        incomeTax == IF countryCode = "ES" THEN Null ELSE incomeTaxEffective
        taxClass == IF Truthy(Or(o.taxClass, Null))
                    THEN Str(toUpperCase(String(o.taxClass))) ELSE Null
        list(v) == IF IsArr(v) THEN v ELSE Arr(<< >>)
        mode == Alloc(h1, ("countryCode" :> Str(countryCode))
                          @@ ("year" :> Str(String(o.year)))
                          @@ ("taxClass" :> Or(taxClass, Null))
                          @@ ("method" :> Str(CalcMethod(h, countryCode, incomeTax))))
        ctx == Alloc(mode.h,
                     ("countryCode" :> Str(countryCode))
                     @@ ("countryName" :> Or(Get(h, countryRules, "name"), Null))
                     @@ ("currency" :> Or(Get(h, countryRules, "currency"), Null))
                     @@ ("year" :> Str(String(o.year)))
                     @@ ("region" :> IF countryCode = "ES" THEN region ELSE Null)
                     @@ ("taxClass" :> taxClass)
                     @@ ("yearRules" :> yearRules)
                     @@ ("incomeTax" :> incomeTax)
                     @@ ("spainRegionTax" :> IF countryCode = "ES" THEN Ref(spain.id) ELSE Null)
                     @@ ("socialContributions" :> social)
                     @@ ("otherTaxes" :> other)
                     @@ ("calculationFlags" :> flags)
                     @@ ("childrenCount" :> <<"num", Number(Or(o.childrenCount, Num(0)))>>)
                     @@ ("disclaimers" :> list(Get(h, yearRules, "disclaimers")))
                     @@ ("notes" :> list(Get(h, yearRules, "notes")))
                     @@ ("calcMode" :> Ref(mode.id)))
    IN IF countryCode = "ES" /\ ~Truthy(regionEntry)
       THEN Thrown(h, "error.noRegionSelected", "")
       ELSE [h |-> ctx.h, ok |-> TRUE, err |-> NoError, ctx |-> Ref(ctx.id)]

\* Step 3 of buildTaxContext: the blocks of the year's rules, an object a
\* "|| {}" creates being new in the heap.
TopLevelBlocks(h, yearRules) ==
    LET sc == OrEmpty(h, Get(h, yearRules, "social_contributions"))
        ot == OrEmpty(sc.h, Get(h, yearRules, "other_taxes"))
        fl == OrEmpty(ot.h, Get(h, yearRules, "calculation_flags"))
    IN [h |-> fl.h, incomeTax |-> Or(Get(h, yearRules, "income_tax"), Null),
        social |-> sc.v, other |-> ot.v, flags |-> fl.v]

\* What step 4 leaves: the effective blocks, or the error it throws.
Effective(h, incomeTax, social, other) ==
    [h |-> h, ok |-> TRUE, key |-> "", cause |-> "",
     incomeTax |-> incomeTax, social |-> social, other |-> other]

Refused(h, key, cause) ==
    [h |-> h, ok |-> FALSE, key |-> key, cause |-> cause,
     incomeTax |-> Null, social |-> Null, other |-> Null]

\* The diagnostic at the end of step 4: under DEBUG_STRICT a class that
\* leaves the income tax rules as they were is an error.
CheckedEffect(merged, strict) ==
    IF merged.noEffect /\ strict
    THEN Refused(merged.h, "app.error.generic", "tax_class_no_effect")
    ELSE Effective(merged.h, merged.incomeTax, merged.social, merged.other)

\* Step 4 of buildTaxContext: the tax class overrides (DE only).
EffectiveBlocks(top, countryCode, o, yearRules, strict) ==
    LET taxClass == Or(o.taxClass, Null)
        rawClass == IF Truthy(taxClass)
                    THEN trim(toUpperCase(String(taxClass))) ELSE ""
        taxClasses == Or(Get(top.h, yearRules, "tax_classes"), Null)
        classOverrides == Get(top.h, taxClasses, rawClass)
    IN IF countryCode # "DE"
       THEN Effective(top.h, top.incomeTax, top.social, top.other)
       ELSE IF taxClasses[1] \in {"ref", "arr"} /\ rawClass = ""
       THEN Refused(top.h, "error.invalidTaxClass", "missing_tax_class_required")
       ELSE IF rawClass = ""
       THEN Effective(top.h, top.incomeTax, top.social, top.other)
       ELSE IF ~Truthy(taxClasses) \/ ~Truthy(classOverrides)
       THEN Refused(top.h, "error.invalidTaxClass", "")
       ELSE CheckedEffect(ApplyTaxClass(top.h, classOverrides, top.incomeTax,
                                        top.social, top.other),
                          strict)

\* Steps 5 and 6 on the effective blocks, where step 4 has not thrown.
Assembled(eff, countryCode, countryRules, o, yearRules, flags) ==
    IF ~eff.ok THEN Thrown(eff.h, eff.key, eff.cause)
    ELSE AssembleContext(eff.h, countryCode, countryRules, o, yearRules,
                         eff.incomeTax, eff.social, eff.other, flags)

\* Steps 3 to 6 for the year's rules.
BuildForYear(top, countryCode, countryRules, o, yearRules, strict) ==
    Assembled(EffectiveBlocks(top, countryCode, o, yearRules, strict),
              countryCode, countryRules, o, yearRules, top.flags)

\* buildTaxContext from "2) Resolve YearRules" on, countryRules being the
\* document loadCountryRules returned.
BuildContext(h, countryCode, countryRules, o, strict) ==
    LET yearRules == resolveYearRules(h, countryRules, o.year)
    IN IF ~Truthy(yearRules) THEN Thrown(h, "error.noYearRules", "")
       ELSE BuildForYear(TopLevelBlocks(h, yearRules), countryCode, countryRules, o,
                         yearRules, strict)

(***************************************************************************)
(* salary-engine.js: rounding, annualisation, allowances, contributions.   *)
(***************************************************************************)
\* new EngineError(i18nKey, details): the key and details.cause.
EngineError(key, cause) == [i18nKey |-> key, cause |-> cause]
NoEngineError == EngineError("", "")

\* roundCurrency(value, decimals, mode) of a finite value: the switch on
\* mode has the one branch, Math.round((v + Number.EPSILON) * factor) /
\* factor, which is the nearest multiple of 1 / factor and the upper one of
\* two equally near (Number.EPSILON is below every difference between the
\* model's amounts).  decimals is a whole number where it is a number.
roundCurrency(value, decimals, mode) ==
    LET d == IF IsNum(decimals) /\ decimals[2][1] >= 0 THEN decimals[2][1] ELSE 2
        factor == Pow10(d)
        whole == value[1] \div value[2]
        rest == value[1] % value[2]
    IN Q(whole * factor + (2 * rest * factor + value[2]) \div (2 * value[2]), factor)

\* toAnnual(amount, period): the annual amount, or the error thrown.
toAnnual(amount, period) ==
    IF ~IsFiniteNumber(amount) \/ QLt(Number(amount), Zero)
    THEN [ok |-> FALSE, v |-> Zero, err |-> EngineError("error.invalidSalary", "")]
    ELSE IF period = Str("monthly")
    THEN [ok |-> TRUE, v |-> QMul(Number(amount), Q(12, 1)), err |-> NoEngineError]
    ELSE IF period = Str("yearly")
    THEN [ok |-> TRUE, v |-> Number(amount), err |-> NoEngineError]
    ELSE [ok |-> FALSE, v |-> Zero,
          err |-> EngineError("app.error.generic", "invalid_period")]

toMonthly(annual) == QDiv(annual, Q(12, 1))

\* extractAnnualAllowances(taxContext)
extractAnnualAllowances(h, taxContext) ==
    LET yearRules == Get(h, taxContext, "yearRules")
        src == IF Get(h, taxContext, "countryCode") = Str("ES")
               THEN IF Truthy(yearRules) /\ Truthy(Get(h, yearRules, "income_tax"))
                    THEN Get(h, yearRules, "income_tax") ELSE Null
               ELSE Or(Get(h, taxContext, "incomeTax"), Null)
        a == Get(h, src, "allowances")
        total == QAdd(Number(Or(Get(h, a, "basic_tax_free"), Num(0))),
                      QAdd(Number(Or(Get(h, a, "employment_expense_flat"), Num(0))),
                           Number(Or(Get(h, a, "other_fixed"), Num(0)))))
    IN IF ~Truthy(src) \/ ~Truthy(a) THEN Zero
       ELSE IF QLt(Zero, total) THEN total ELSE Zero

\* computeBracketedContribution from the i-th bracket on.  After a bracket
\* without up_to nothing remains, so the limit it leaves (Infinity) is
\* never subtracted from.
RECURSIVE BracketedFrom(_, _, _, _, _, _)
BracketedFrom(h, brackets, i, remaining, prevLimit, total) ==
    IF i > Len(brackets) \/ QLe(remaining, Zero) THEN total
    ELSE LET b == brackets[i]
             unbounded == IsNullish(Get(h, b, "up_to"))
             upTo == Number(Get(h, b, "up_to"))
             rate == Number(Or(Get(h, b, "rate"), Num(0)))
             span == QMax(Zero, QSub(upTo, prevLimit))
             taxable == IF unbounded THEN remaining ELSE QMin(remaining, span)
         IN BracketedFrom(h, brackets, i + 1, QSub(remaining, taxable),
                          IF unbounded THEN prevLimit ELSE upTo,
                          QAdd(total, QMul(taxable, rate)))

computeBracketedContribution(h, baseAnnual, brackets) ==
    BracketedFrom(h, brackets, 1, baseAnnual, Zero, Zero)

\* A faulty comparison: the upper bound of a tier is not part of it.
InTierExclusive(baseForTier, upTo) == QLt(baseForTier, upTo)

\* baseForTier <= upTo
InTier(baseForTier, upTo) == QLe(baseForTier, upTo)

\* The rate of the first low-income tier the base falls in, from tier i on.
RECURSIVE TierRate(_, _, _, _, _)
TierRate(h, tiers, i, baseForTier, empRate) ==
    IF i > Len(tiers) THEN empRate
    ELSE IF IsNullish(Get(h, tiers[i], "up_to"))
            \/ InTier(baseForTier, Number(Get(h, tiers[i], "up_to")))
    THEN IF "employee_rate" \in KeysOf(h, tiers[i])
         THEN Number(Get(h, tiers[i], "employee_rate")) ELSE empRate
    ELSE TierRate(h, tiers, i + 1, baseForTier, empRate)

\* A faulty clamp: the ceiling is not applied.
ClampBaseNoCeiling(contribBase, floor, hasCeiling, ceiling) ==
    QMax(Zero, QMax(contribBase, floor))

\* effectiveBase: the base raised to the floor, cut at the ceiling, and
\* never negative.
ClampBase(contribBase, floor, hasCeiling, ceiling) ==
    LET raised == IF QLt(contribBase, floor) THEN floor ELSE contribBase
        cut == IF hasCeiling /\ QLt(ceiling, raised) THEN ceiling ELSE raised
    IN IF QLt(cut, Zero) THEN Zero ELSE cut

\* processEntry(id, entry) for an entry that is an object: its label, the
\* base the rates were applied to, the two amounts, and whether the
\* employee amount is deductible.
processEntry(h, base, id, entry, opts) ==
    LET applies == Truthy(Get(h, entry, "applies"))
        tiers == Get(h, entry, "low_income_employee_rate_tiers")
        standardRate == Number(Or(Get(h, entry, "employee_rate"), Num(0)))
        basis == Or(Get(h, entry, "low_income_employee_rate_basis"), Str("monthly"))
        baseForTier == IF basis = Str("monthly") THEN QDiv(base, Q(12, 1)) ELSE base
        empRate == IF /\ opts.countryCode = Str("AT")
                      /\ opts.atPortion # Str("special")
                      /\ IsArr(tiers)
                      /\ Len(tiers[2]) > 0
                   THEN TierRate(h, tiers[2], 1, baseForTier, standardRate)
                   ELSE standardRate
        erRate == Number(Or(Get(h, entry, "employer_rate"), Num(0)))
        floor == IF ~IsNullish(Get(h, entry, "floor"))
                 THEN Number(Get(h, entry, "floor")) ELSE Zero
        hasCeiling == ~IsNullish(Get(h, entry, "ceiling"))
        effectiveBase == ClampBase(base, floor, hasCeiling, Number(Get(h, entry, "ceiling")))
        employee == Get(h, entry, "employee")
        employer == Get(h, entry, "employer")
        empAmount == IF Truthy(employee) /\ IsArr(Get(h, employee, "brackets"))
                     THEN computeBracketedContribution(h, effectiveBase,
                                                      Get(h, employee, "brackets")[2])
                     ELSE QMul(effectiveBase, empRate)
        erAmount == IF Truthy(employer) /\ IsFiniteNumber(Get(h, employer, "threshold"))
                    THEN QMul(QMax(Zero, QSub(effectiveBase,
                                              Number(Get(h, employer, "threshold")))),
                              Number(Or(Get(h, employer, "rate"), Num(0))))
                    ELSE QMul(effectiveBase, erRate)
    IN [label |-> Or(Get(h, entry, "label"), Str(id)),
        applies |-> applies,
        base |-> IF applies THEN effectiveBase ELSE Zero,
        employee |-> IF applies THEN empAmount ELSE Zero,
        employer |-> IF applies THEN erAmount ELSE Zero,
        deductible |-> applies /\ Truthy(Get(h, entry, "deductible_for_tax"))]

\* The id of the i-th entry of the other list: 'other_' + index.
OtherId(i) == "other_" \o IntToStr(i - 1)

\* The object computeContributionsAnnual returns, done holding what
\* processEntry found for each id.
ContributionTotals(done) ==
    [employeeById |-> [id \in DOMAIN done |-> done[id].employee],
     employerById |-> [id \in DOMAIN done |-> done[id].employer],
     baseById |-> [id \in DOMAIN done |-> done[id].base],
     labelsById |-> [id \in DOMAIN done |-> done[id].label],
     employeeTotal |-> QSum([id \in DOMAIN done |-> done[id].employee]),
     employerTotal |-> QSum([id \in DOMAIN done |-> done[id].employer]),
     deductibleEmployeeTotal |->
         QSum([id \in DOMAIN done |-> IF done[id].deductible
                                      THEN done[id].employee ELSE Zero])]

\* computeContributionsAnnual(grossAnnual, socialContribRules, opts)
computeContributionsAnnual(h, grossAnnual, socialContribRules, opts) ==
    LET other == Get(h, socialContribRules, "other")
        otherList == IF IsArr(other) THEN other[2] ELSE << >>
        named == {k \in KeysOf(h, socialContribRules) \ {"other"} :
                     IsObject(Get(h, socialContribRules, k))}
        listed == {i \in 1..Len(otherList) : IsObject(otherList[i])}
        ids == named \cup {OtherId(i) : i \in listed}
        entry(id) == IF id \in named THEN Get(h, socialContribRules, id)
                     ELSE otherList[CHOOSE i \in listed : OtherId(i) = id]
    IN IF ~IsObject(socialContribRules) THEN ContributionTotals([id \in {} |-> Zero])
       ELSE ContributionTotals(
                [id \in ids |-> processEntry(h, grossAnnual, id, entry(id), opts)])

(***************************************************************************)
(* app.js: the formula registry and the two formulas it registers.         *)
(***************************************************************************)
\* The registry after the page has loaded: method name -> function.
SalaryFormulaRegistry ==
    ("de_estg_2026" :> "deEstg2026") @@ ("se_job_credit_2026" :> "seJobCredit2026")

\* A function value, by the function's name.
Fn(name) == <<"fn", name>>

\* A faulty register: a name that is taken keeps its function.
registerOnce(reg, methodName, fn) ==
    IF ~IsStr(methodName) \/ methodName[2] = "" THEN reg
    ELSE IF fn[1] # "fn" THEN reg
    ELSE IF methodName[2] \in DOMAIN reg THEN reg
    ELSE (methodName[2] :> fn[2]) @@ reg

\* register(methodName, fn): the registry afterwards.
register(reg, methodName, fn) ==
    IF ~IsStr(methodName) \/ methodName[2] = "" THEN reg
    ELSE IF fn[1] # "fn" THEN reg
    ELSE (methodName[2] :> fn[2]) @@ reg

\* get(methodName): the function's name, "" for null.
get(registry, methodName) ==
    IF IsStr(methodName) /\ methodName[2] # "" /\ methodName[2] \in DOMAIN registry
    THEN registry[methodName[2]] ELSE ""

\* num(v, fallback) and _num(v, d)
num(v, fallback) == IF IsFiniteNumber(v) THEN Number(v) ELSE fallback

\* The formulas' own rounding of their result.
FormulaRound(tax, currencyDecimals, roundingMode) ==
    LET d == IF IsNum(currencyDecimals) THEN currencyDecimals[2][1] ELSE 2
        factor == Q(Pow10(d), 1)
        scaled == QMul(tax, factor)
        floor == QFloor(scaled)
        ceil == IF floor = scaled THEN scaled ELSE QAdd(floor, Q(1, 1))
        nearest == QFloor(QAdd(scaled, Q(1, 2)))
    IN QDiv(CASE roundingMode = Str("up") -> ceil
              [] roundingMode = Str("down") -> floor
              [] OTHER -> nearest,
            factor)

\* deEstg2026: the taxable income after the adjustment of the tax class,
\* taken from the formula parameters or else from a classes map.
ClassAdjusted(h, taxableRaw, params, extra) ==
    LET taxClass == Or(extra.taxClass, Null)
        adj == Get(h, params, "taxable_income_adjustment")
        classesMap == Or(Get(h, params, "classes"),
                         Or(Get(h, extra.yearRules, "classes"), Null))
        classEntry == Get(h, classesMap, String(taxClass))
        classAdj == Number(Or(Get(h, classEntry, "taxable_income_adjustment"), Num(0)))
    IN IF IsFiniteNumber(adj) THEN QMax(Zero, QAdd(taxableRaw, Number(adj)))
       ELSE IF Truthy(taxClass) /\ Truthy(classesMap) /\ Truthy(classEntry)
               /\ classAdj # Zero
       THEN QMax(Zero, QAdd(taxableRaw, classAdj))
       ELSE taxableRaw

\* deEstg2026, child effects: the relief for single parents.
Entlastungsbetrag(h, adjusted, params, childrenCount) ==
    LET childBehavior == Get(h, params, "child_behavior")
        allowances == Get(h, params, "allowances")
        entlast ==
            QAdd(num(Get(h, childBehavior, "entlast_base"),
                     num(Get(h, allowances, "entlastungsbetrag_base"), Zero)),
                 QMul(QMax(Zero, QSub(childrenCount, Q(1, 1))),
                      num(Get(h, childBehavior, "entlast_per_additional_child"),
                          num(Get(h, allowances, "entlastungsbetrag_per_additional_child"),
                              Zero))))
    IN IF /\ QLt(Zero, childrenCount)
          /\ Truthy(Get(h, childBehavior, "apply_entlastungsbetrag"))
          /\ QLt(Zero, entlast)
       THEN QMax(Zero, QSub(adjusted, entlast)) ELSE adjusted

\* deEstg2026, child effects: the allowance per child.
Kinderfreibetrag(h, relieved, params, childrenCount) ==
    LET childBehavior == Get(h, params, "child_behavior")
        childParams == Get(h, params, "child")
        allowances == Get(h, params, "allowances")
        kfbFull == IF IsFiniteNumber(Get(h, params, "kfb_full_per_child"))
                   THEN Number(Get(h, params, "kfb_full_per_child"))
                   ELSE IF IsFiniteNumber(Get(h, allowances, "kfb_full_per_child"))
                   THEN Number(Get(h, allowances, "kfb_full_per_child"))
                   ELSE num(Get(h, childParams, "kfb_per_child"), Zero)
        kfbHalf == IF IsFiniteNumber(Get(h, params, "kfb_half_per_child"))
                   THEN Number(Get(h, params, "kfb_half_per_child"))
                   ELSE IF IsFiniteNumber(Get(h, allowances, "kfb_half_per_child"))
                   THEN Number(Get(h, allowances, "kfb_half_per_child"))
                   ELSE num(Get(h, childParams, "kfb_half_per_child"), Zero)
        mode == String(Or(Get(h, childBehavior, "kfb_mode"), Str("half")))
        perChild == IF mode = "full" THEN kfbFull
                    ELSE IF mode = "none" THEN Zero ELSE kfbHalf
        kfb == QMul(QMul(QMax(Zero, perChild), childrenCount),
                    QMax(Zero, num(Get(h, childBehavior, "per_child_multiplier"), Q(1, 1))))
    IN IF /\ QLt(Zero, childrenCount)
          /\ Truthy(Get(h, childBehavior, "apply_kfb"))
          /\ QLt(Zero, kfb)
       THEN QMax(Zero, QSub(relieved, kfb)) ELSE relieved

\* deEstg2026: the tariff of the four zones on x, the taxable income in
\* whole euros.
TariffOn(h, tariff, x, y, z) ==
    LET basicAllowance == num(Get(h, tariff, "basic_allowance"), Zero)
        zone2Start == num(Get(h, tariff, "zone2_start"), basicAllowance)
        zone3Start == num(Get(h, tariff, "zone3_start"), zone2Start)
        zone4Start == num(Get(h, tariff, "zone4_start"), zone3Start)
        z1 == Get(h, tariff, "zone1")
        z2 == Get(h, tariff, "zone2")
        z3 == Get(h, tariff, "zone3")
        z4 == Get(h, tariff, "zone4")
    IN IF QLe(x, basicAllowance) THEN Zero
       ELSE IF QLt(x, zone2Start)
       THEN QMul(QAdd(QMul(num(Get(h, z1, "coeff_y"), Zero), y),
                      num(Get(h, z1, "offset"), Zero)), y)
       ELSE IF QLt(x, zone3Start)
       THEN QAdd(QMul(QAdd(QMul(num(Get(h, z2, "coeff_y"), Zero), z),
                           num(Get(h, z2, "offset"), Zero)), z),
                 num(Get(h, z2, "constant"), Zero))
       ELSE IF QLt(x, zone4Start)
       THEN QSub(QMul(num(Get(h, z3, "rate"), Zero), x), num(Get(h, z3, "offset"), Zero))
       ELSE QSub(QMul(num(Get(h, z4, "rate"), Zero), x), num(Get(h, z4, "offset"), Zero))

\* y = (x - basic) / 10,000 and z = (x - zone2Start) / 10,000
TaxBase(h, tariff, x) ==
    LET basicAllowance == num(Get(h, tariff, "basic_allowance"), Zero)
        zone2Start == num(Get(h, tariff, "zone2_start"), basicAllowance)
    IN TariffOn(h, tariff, x, QDiv(QSub(x, basicAllowance), Q(10000, 1)),
                QDiv(QSub(x, zone2Start), Q(10000, 1)))

\* The base tax: whole euros, and not below zero.
Floored(taxBase) == IF QLt(QFloor(taxBase), Zero) THEN Zero ELSE QFloor(taxBase)

\* The lowest rate for classes V and VI at x, which rises from min_rate at
\* w1 to the top rate at w3.
FloorRate(x, w1, w3, minRate, topRate, t) ==
    IF QLe(w3, x) THEN topRate
    ELSE QAdd(QMul(QSub(Q(1, 1), t), minRate), QMul(t, topRate))

\* deEstg2026: the overlay for tax classes V and VI.
MstOverlay(h, params, tariff, x, floored, extra) ==
    LET mst == Or(Get(h, params, "mst5_6"), Null)
        w1 == num(Get(h, mst, "w1"), Zero)
        w3 == num(Get(h, mst, "w3"), Zero)
        minRate == num(Get(h, mst, "min_rate"), Zero)
        topRate == num(Get(h, Get(h, tariff, "zone4"), "rate"), Q(45, 100))
        taxFloor == QMul(FloorRate(x, w1, w3, minRate, topRate,
                                   QDiv(QSub(x, w1), QSub(w3, w1))), x)
    IN IF /\ extra.countryCode = Str("DE")
          /\ extra.taxClass \in {Str("V"), Str("VI")}
          /\ Truthy(mst)
          /\ QLt(w1, x)
          /\ QLt(w1, w3)
          /\ QLt(floored, taxFloor)
       THEN taxFloor ELSE floored

\* The tax on x euros of taxable income.
TaxOnEuros(h, params, tariff, x, extra) ==
    MstOverlay(h, params, tariff, x, Floored(TaxBase(h, tariff, x)), extra)

\* deEstg2026(ctx), ctx = {taxable, parameters, currencyDecimals,
\* roundingMode, extra}
deEstg2026(h, taxableRaw, params, currencyDecimals, roundingMode, extra) ==
    LET tariff == Get(h, params, "tariff")
    IN IF ~IsObject(tariff) THEN Zero
       ELSE IF QLe(taxableRaw, Zero) THEN Zero
       ELSE FormulaRound(
                TaxOnEuros(h, params, tariff,
                    QFloor(Kinderfreibetrag(h,
                               Entlastungsbetrag(h,
                                   ClassAdjusted(h, taxableRaw, params, extra),
                                   params, extra.childrenCount),
                               params, extra.childrenCount)),
                    extra),
                currencyDecimals, roundingMode)

\* seJobCredit2026(ctx)
seJobCredit2026(h, taxable, parameters, currencyDecimals) ==
    LET p(key) == Number(Or(Get(h, parameters, key), Num(0)))
        grossAnnual == QAdd(taxable, p("basic_allowance"))
        municipalTax == IF QLt(Zero, p("municipal_rate")) /\ QLt(Zero, grossAnnual)
                        THEN QMul(grossAnnual, p("municipal_rate")) ELSE Zero
        stateTax == IF /\ QLt(Zero, p("state_rate"))
                       /\ QLt(Zero, p("state_threshold"))
                       /\ QLt(p("state_threshold"), taxable)
                    THEN QMul(QSub(taxable, p("state_threshold")), p("state_rate"))
                    ELSE Zero
        g1 == p("seg1_start_gross_annual")
        c1 == p("seg1_start_credit")
        g2 == p("seg1_end_gross_annual")
        c2 == p("seg1_end_credit")
        g3 == p("seg2_end_gross_annual")
        c3 == p("seg2_end_credit")
        credit ==
            IF QLe(grossAnnual, Zero) \/ QLe(g1, Zero) \/ QLe(g2, g1) THEN Zero
            ELSE IF QLe(grossAnnual, g1) THEN c1
            ELSE IF QLe(grossAnnual, g2)
            THEN QAdd(c1, QMul(QSub(c2, c1), QDiv(QSub(grossAnnual, g1), QSub(g2, g1))))
            ELSE IF QLe(grossAnnual, g3) /\ QLt(g2, g3)
            THEN QAdd(c2, QMul(QSub(c3, c2), QDiv(QSub(grossAnnual, g2), QSub(g3, g2))))
            ELSE c3
        totalTax == QSub(QAdd(municipalTax, stateTax), QMax(Zero, credit))
        d == IF IsNum(currencyDecimals) THEN currencyDecimals ELSE Num(2)
    IN FormulaRound(QMax(Zero, totalTax), d, Str("nearest_cent"))

\* The numbers that are not finite.
NaN == <<"nan", 0>>
Infinity == <<"inf", 0>>

\* What a call of a function leaves: the value returned, or an exception.
Returns(v) == [threw |-> FALSE, v |-> v]
Throws == [threw |-> TRUE, v |-> Undef]

\* Functions a caller registers with register(methodName, fn), by what
\* they do when called.
RegisteredByCaller ==
    ("throws" :> "throws") @@ ("returns_nan" :> "returnsNaN")
    @@ ("returns_infinity" :> "returnsInfinity")
    @@ ("returns_negative" :> "returnsNegative")
    @@ ("returns_nothing" :> "returnsNothing")
    @@ ("returns_thirds" :> "returnsThirds")

\* impl(formulaCtx) for a registered function.
CallFormula(impl, h, taxable, parameters, currencyDecimals, roundingMode, extra) ==
    CASE impl = "deEstg2026" ->
             Returns(<<"num", deEstg2026(h, taxable, parameters, currencyDecimals,
                                         roundingMode, extra)>>)
      [] impl = "seJobCredit2026" ->
             Returns(<<"num", seJobCredit2026(h, taxable, parameters, currencyDecimals)>>)
      [] impl = "throws" -> Throws
      [] impl = "returnsNaN" -> Returns(NaN)
      [] impl = "returnsInfinity" -> Returns(Infinity)
      [] impl = "returnsNegative" -> Returns(<<"num", QSub(Zero, QAdd(taxable, Q(1, 1)))>>)
      [] impl = "returnsNothing" -> Returns(Undef)
      [] impl = "returnsThirds" -> Returns(<<"num", QDiv(taxable, Q(3, 1))>>)

(***************************************************************************)
(* salary-engine.js: taxes.                                                *)
(***************************************************************************)
\* The argument extraCtx when computeTaxByRules is called without one.
NoExtra == [countryCode |-> Undef, taxClass |-> Undef, childrenCount |-> Zero,
            yearRules |-> Undef]

TaxOf(amount, type, note) ==
    [ok |-> TRUE, amount |-> amount, type |-> type, note |-> note, err |-> NoEngineError]

TaxError(cause) ==
    [ok |-> FALSE, amount |-> Zero, type |-> "", note |-> "",
     err |-> EngineError("app.error.generic", cause)]

\* A faulty bracket step: a bracket that is reached takes all that remains.
TaxableInBracketWhole(remaining, unbounded, span) == remaining

\* taxableInBracket = Math.min(remaining, span), span being Infinity for a
\* bracket without up_to.
TaxableInBracket(remaining, unbounded, span) ==
    IF unbounded THEN remaining ELSE QMin(remaining, span)

\* The progressive loop from bracket i on: the unrounded tax.  A bracket
\* without up_to that is reached takes all that remains, so the limit it
\* leaves (Infinity) is never subtracted from.
RECURSIVE ProgressiveFrom(_, _, _, _, _, _)
ProgressiveFrom(h, brackets, i, remaining, prevLimit, tax) ==
    IF i > Len(brackets) THEN tax
    ELSE LET b == brackets[i]
             unbounded == IsNullish(Get(h, b, "up_to"))
             upper == Number(Get(h, b, "up_to"))
             rate == Number(Or(Get(h, b, "rate"), Num(0)))
             span == QMax(Zero, QSub(upper, prevLimit))
             taxableInBracket == TaxableInBracket(remaining, unbounded, span)
             limit == IF unbounded THEN prevLimit ELSE upper
         IN IF ~Truthy(b)
            THEN ProgressiveFrom(h, brackets, i + 1, remaining, prevLimit, tax)
            ELSE IF QLe(remaining, Zero) \/ (~unbounded /\ QLe(span, Zero))
            THEN ProgressiveFrom(h, brackets, i + 1, remaining, limit, tax)
            ELSE IF QLe(QSub(remaining, taxableInBracket), Zero)
            THEN QAdd(tax, QMul(taxableInBracket, rate))
            ELSE ProgressiveFrom(h, brackets, i + 1, QSub(remaining, taxableInBracket),
                                 limit, QAdd(tax, QMul(taxableInBracket, rate)))

\* A faulty check of the result: a negative amount is let through.
FormulaTaxUnchecked(called, currencyDecimals, roundingMode) ==
    IF called.threw \/ ~IsFiniteNumber(called.v) THEN TaxError("formula_execution_error")
    ELSE TaxOf(roundCurrency(Number(called.v), currencyDecimals, roundingMode),
               "formula", "")

\* The result for what the call of a registered formula left.
FormulaTax(called, currencyDecimals, roundingMode) ==
    IF called.threw THEN TaxError("formula_execution_error")
    ELSE IF ~IsFiniteNumber(called.v) \/ QLt(Number(called.v), Zero)
    THEN TaxError("formula_invalid_result")
    ELSE TaxOf(roundCurrency(Number(called.v), currencyDecimals, roundingMode),
               "formula", "")

\* computeTaxByRules(taxableAnnual, taxRules, currencyDecimals,
\* roundingMode, extraCtx)
computeTaxByRules(h, registry, taxableAnnual, taxRules, currencyDecimals, roundingMode, extraCtx) ==
    LET taxable == QMax(Zero, taxableAnnual)
        type == Or(Get(h, taxRules, "type"), Str("progressive"))
        brackets == IF IsArr(Get(h, taxRules, "brackets"))
                    THEN Get(h, taxRules, "brackets")[2] ELSE << >>
        f == Get(h, taxRules, "formula")
        method == Or(Get(h, f, "method"), Null)
        impl == get(registry.fns, method)
    IN IF ~IsObject(taxRules) THEN TaxOf(Zero, "none", "")
       ELSE IF type = Str("progressive")
       THEN TaxOf(roundCurrency(ProgressiveFrom(h, brackets, 1, taxable, Zero, Zero),
                                currencyDecimals, roundingMode),
                  "progressive", "")
       ELSE IF type = Str("flat")
       THEN TaxOf(roundCurrency(QMul(taxable,
                                     Number(Or(Get(h, taxRules, "flat_rate"), Num(0)))),
                                currencyDecimals, roundingMode),
                  "flat", "")
       ELSE IF type = Str("formula")
       THEN IF ~Truthy(Get(h, f, "use_formula")) \/ ~Truthy(method)
            THEN TaxOf(Zero, "formula", "formula_not_configured")
            ELSE IF ~registry.loaded THEN TaxError("formula_registry_missing")
            ELSE IF impl = "" THEN TaxError("formula_not_registered")
            ELSE FormulaTax(CallFormula(impl, h, taxable, Get(h, f, "parameters"),
                                        currencyDecimals, roundingMode, extraCtx),
                            currencyDecimals, roundingMode)
       ELSE TaxOf(Zero, "unknown", "")

\* The sum of the national and the regional tax, or the error the first of
\* the two calls threw.
SpainTotal(national, regional, currencyDecimals, roundingMode) ==
    IF ~national.ok THEN national
    ELSE IF ~regional.ok THEN regional
    ELSE TaxOf(roundCurrency(QAdd(national.amount, regional.amount),
                             currencyDecimals, roundingMode),
               "es_dual_irpf", "")

\* computeSpainIncomeTax(taxableAnnual, taxContext, currencyDecimals,
\* roundingMode): the total, or the error thrown.
computeSpainIncomeTax(h, registry, taxableAnnual, taxContext, currencyDecimals, roundingMode) ==
    LET spainRegionTax == Get(h, taxContext, "spainRegionTax")
    IN IF ~Truthy(spainRegionTax) THEN TaxError("missing_spain_region_tax")
       ELSE SpainTotal(
                computeTaxByRules(h, registry, taxableAnnual,
                    Or(Get(h, spainRegionTax, "nationalIncomeTax"), Null),
                    currencyDecimals, roundingMode, NoExtra),
                computeTaxByRules(h, registry, taxableAnnual,
                    Or(Get(h, spainRegionTax, "regionalIncomeTax"), Null),
                    currencyDecimals, roundingMode, NoExtra),
                currencyDecimals, roundingMode)

\* The segments loop of computeTaxCreditsAnnual from segment i on.
RECURSIVE SegmentsFrom(_, _, _, _, _)
SegmentsFrom(h, segments, i, incomeAnnual, cur) ==
    IF i > Len(segments) THEN cur
    ELSE LET seg == segments[i]
             field(key) == IF IsNum(Get(h, seg, key)) THEN Get(h, seg, key)[2] ELSE Zero
             open == ~IsNum(Get(h, seg, "up_to"))
             reach == IF open \/ QLe(incomeAnnual, field("up_to"))
                      THEN incomeAnnual ELSE field("up_to")
             value == QAdd(field("base"),
                           QMul(field("rate"), QMax(Zero, QSub(reach, field("over")))))
         IN IF ~IsObject(seg) THEN SegmentsFrom(h, segments, i + 1, incomeAnnual, cur)
            ELSE IF open \/ QLe(incomeAnnual, field("up_to")) THEN value
            ELSE SegmentsFrom(h, segments, i + 1, incomeAnnual, value)

\* computeTaxCreditsAnnual(incomeAnnual, taxCreditsRules)
computeTaxCreditsAnnual(h, incomeAnnual, taxCreditsRules) ==
    LET ids == {k \in KeysOf(h, taxCreditsRules) : IsObject(Get(h, taxCreditsRules, k))}
        credit(id) ==
            LET rule == Get(h, taxCreditsRules, id)
                max == Get(h, rule, "max")
                start == Get(h, rule, "phaseout_start")
                end == Get(h, rule, "phaseout_end")
                rate == IF IsNum(Get(h, rule, "phaseout_rate_per_eur"))
                        THEN Get(h, rule, "phaseout_rate_per_eur")[2]
                        ELSE IF IsNum(Get(h, rule, "phaseout_rate"))
                        THEN Get(h, rule, "phaseout_rate")[2]
                        ELSE Zero
                phased ==
                    IF ~(IsNum(max) /\ IsNum(start)) THEN Zero
                    ELSE IF QLe(incomeAnnual, start[2]) THEN max[2]
                    ELSE IF IsNum(end) /\ QLe(end[2], incomeAnnual) THEN Zero
                    ELSE QMax(Zero, QSub(max[2], QMul(QSub(incomeAnnual, start[2]), rate)))
                v == IF IsArr(Get(h, rule, "segments"))
                     THEN SegmentsFrom(h, Get(h, rule, "segments")[2], 1, incomeAnnual, Zero)
                     ELSE phased
            IN QMax(Zero, v)
        byId == [id \in ids |-> credit(id)]
    IN IF ~IsObject(taxCreditsRules)
       THEN [total |-> Zero, byId |-> [id \in {} |-> Zero]]
       ELSE [total |-> QSum(byId), byId |-> byId]

\* s.toLowerCase(), on the incidence values of the rule documents.
toLowerCase(s) ==
    CASE s = "Employer" -> "employer"
      [] s = "Employee" -> "employee"
      [] OTHER -> s

\* baseAmount of an other-taxes rule.
OtherTaxBase(basis, grossAnnual, taxableAnnual, incomeTaxTotalAnnual) ==
    CASE basis = Str("gross") -> grossAnnual
      [] basis = Str("taxable_income") -> taxableAnnual
      [] basis = Str("income_tax") -> incomeTaxTotalAnnual
      [] OTHER -> grossAnnual

\* computeOtherTaxesAnnual(grossAnnual, taxableAnnual, incomeTaxTotalAnnual,
\* otherTaxRules, currencyDecimals, roundingMode)
computeOtherTaxesAnnual(h, grossAnnual, taxableAnnual, incomeTaxTotalAnnual, otherTaxRules, currencyDecimals, roundingMode) ==
    LET ids == KeysOf(h, otherTaxRules)
        levy(id) ==
            LET rule == Get(h, otherTaxRules, id)
                basis == Or(Get(h, rule, "basis"), Str("gross"))
                baseAmount == OtherTaxBase(basis, grossAnnual, taxableAnnual,
                                           incomeTaxTotalAnnual)
                byRate == IF IsFiniteNumber(Get(h, rule, "rate"))
                          THEN QMul(baseAmount, Number(Get(h, rule, "rate"))) ELSE Zero
                tapered ==
                    IF /\ IsFiniteNumber(Get(h, rule, "free_threshold"))
                       /\ IsFiniteNumber(Get(h, rule, "taper_rate"))
                       /\ IsFiniteNumber(Get(h, rule, "standard_rate"))
                       /\ basis = Str("income_tax")
                    THEN IF QLe(baseAmount, Number(Get(h, rule, "free_threshold")))
                         THEN Zero
                         ELSE QMin(QMul(QSub(baseAmount,
                                             Number(Get(h, rule, "free_threshold"))),
                                        Number(Get(h, rule, "taper_rate"))),
                                   QMul(baseAmount, Number(Get(h, rule, "standard_rate"))))
                    ELSE byRate
                cap == IF ~IsNullish(Get(h, rule, "cap")) THEN Get(h, rule, "cap")
                       ELSE IF ~IsNullish(Get(h, rule, "max")) THEN Get(h, rule, "max")
                       ELSE Null
                amount == IF ~IsNullish(cap) /\ QLe(Zero, Number(cap))
                             /\ QLt(Number(cap), tapered)
                          THEN Number(cap) ELSE tapered
            IN [amount |-> IF ~IsObject(rule) \/ Get(h, rule, "applies") = Bool(FALSE)
                           THEN Zero
                           ELSE roundCurrency(amount, currencyDecimals, roundingMode),
                employer |-> IsObject(rule) /\ Get(h, rule, "applies") # Bool(FALSE)
                    /\ toLowerCase(String(Or(Get(h, rule, "incidence"), Str("employee"))))
                       = "employer"]
        byId == [id \in ids |-> levy(id).amount]
        employeeById == [id \in ids |-> IF levy(id).employer THEN Zero ELSE levy(id).amount]
        employerById == [id \in ids |-> IF levy(id).employer THEN levy(id).amount ELSE Zero]
    IN IF ~IsObject(otherTaxRules)
       THEN [total |-> Zero, byId |-> [id \in {} |-> Zero],
             employeeTotal |-> Zero, employerTotal |-> Zero,
             employeeById |-> [id \in {} |-> Zero],
             employerById |-> [id \in {} |-> Zero]]
       ELSE [total |-> roundCurrency(QSum(byId), currencyDecimals, roundingMode),
             byId |-> byId,
             employeeTotal |-> roundCurrency(QSum(employeeById), currencyDecimals,
                                             roundingMode),
             employerTotal |-> roundCurrency(QSum(employerById), currencyDecimals,
                                             roundingMode),
             employeeById |-> employeeById,
             employerById |-> employerById]

(***************************************************************************)
(* salary-engine.js: computeSalary.                                        *)
(***************************************************************************)
\* JSON.parse(JSON.stringify(v)): new objects all the way down.
RECURSIVE DeepCopy(_, _)
RECURSIVE CopyKeys(_, _, _, _)
CopyKeys(h, id, src, ks) ==
    IF ks = {} THEN h
    ELSE LET key == CHOOSE k \in ks : TRUE
             c == DeepCopy(h, Get(h, src, key))
         IN CopyKeys(SetField(c.h, id, key, c.v), id, src, ks \ {key})

DeepCopy(h, v) ==
    IF ~IsRef(v) THEN [h |-> h, v |-> v]
    ELSE LET a == Alloc(h, EmptyObj)
         IN [h |-> CopyKeys(a.h, a.id, v, KeysOf(h, v)), v |-> Ref(a.id)]

\* applyCap(entry) for an entry that is an object: its ceiling afterwards.
CappedCeiling(ceiling, capAnnual) ==
    IF IsNullish(ceiling) THEN <<"num", capAnnual>>
    ELSE <<"num", QMin(Number(ceiling), capAnnual)>>

\* cloneSocialWithCeilingCap(socialRules, capAnnual), capAnnual being
\* scCfg.<portion>_ceiling_annual as configured (null when absent): the
\* copy, in a heap that holds it.
cloneSocialWithCeilingCap(h, socialRules, configured) ==
    LET out == DeepCopy(h, socialRules)
        capAnnual == Number(configured)
        capped == {k \in {"health", "pension", "unemployment"} : IsRef(Get(out.h, out.v, k))}
        other == Get(out.h, out.v, "other")
        cappedOther ==
            Arr([i \in 1..Len(other[2]) |->
                    IF other[2][i][1] = "obj"
                    THEN Obj([k \in DOMAIN other[2][i][2] \cup {"ceiling"} |->
                                 IF k = "ceiling"
                                 THEN CappedCeiling(Get(h, other[2][i], "ceiling"), capAnnual)
                                 ELSE other[2][i][2][k]])
                    ELSE other[2][i]])
        h1 == [i \in 1..Len(out.h) |->
                  IF \E k \in capped : Get(out.h, out.v, k) = Ref(i)
                  THEN [k \in DOMAIN out.h[i] \cup {"ceiling"} |->
                           IF k = "ceiling"
                           THEN CappedCeiling(Get(out.h, Ref(i), "ceiling"), capAnnual)
                           ELSE out.h[i][k]]
                  ELSE out.h[i]]
    IN IF ~IsObject(socialRules) THEN [h |-> h, v |-> socialRules]
       ELSE IF IsNullish(configured) \/ ~IsFiniteNumber(configured) THEN out
       ELSE [h |-> IF IsArr(other) THEN SetField(h1, out.v[2], "other", cappedOther) ELSE h1,
             v |-> out.v]

\* value of id in a by-id map, 0 when it has none.
AmountOf(byId, id) == IF id \in DOMAIN byId THEN byId[id] ELSE Zero

\* A faulty total: every other tax is charged to the employee.
EmployeeTaxesAll(incomeTaxTotalAnnual, otherTaxes) ==
    QAdd(incomeTaxTotalAnnual, otherTaxes.total)

\* taxesTotalAnnual: income tax plus the other taxes the employee bears.
EmployeeTaxes(incomeTaxTotalAnnual, otherTaxes) ==
    QAdd(incomeTaxTotalAnnual, otherTaxes.employeeTotal)

\* A faulty check: only the country code is compared.
CalcModeMismatchCountryOnly(h, taxContext) ==
    Get(h, Get(h, taxContext, "calcMode"), "countryCode") # Get(h, taxContext, "countryCode")

\* The comparison of calcMode with the context's own country, year and
\* class.
CalcModeMismatch(h, taxContext) ==
    LET calcMode == Get(h, taxContext, "calcMode")
    IN \/ Get(h, calcMode, "countryCode") # Get(h, taxContext, "countryCode")
       \/ String(Get(h, calcMode, "year")) # String(Get(h, taxContext, "year"))
       \/ String(Or(Get(h, calcMode, "taxClass"), Str("")))
              # String(Or(Get(h, taxContext, "taxClass"), Str("")))

\* A faulty check: a German context without a class is let through.
MissingTaxClassNever(h, taxContext) == FALSE

\* The German context whose year has a tax_classes map but which names no
\* class.
MissingTaxClass(h, taxContext) ==
    /\ Get(h, taxContext, "countryCode") = Str("DE")
    /\ Truthy(Get(h, taxContext, "yearRules"))
    /\ IsObject(Get(h, Get(h, taxContext, "yearRules"), "tax_classes"))
    /\ ~Truthy(Get(h, taxContext, "taxClass"))

\* What computeSalary leaves: the heap, and the result returned or the
\* error thrown.  Of the result, tables (the same figures laid out in rows)
\* and the labels are left out; at holds the intermediate amounts of the
\* Austrian special-payment path.
Failed(h, err) == [h |-> h, ok |-> FALSE, err |-> err]

\* A faulty regular portion: the average of the year for monthly input too.
RegularGrossAveraged(options, annual, regularMonths, effectiveMonths) ==
    QMul(QDiv(annual, effectiveMonths), regularMonths)

\* atRegularGrossAnnual: monthly * regularMonths for monthly input,
\* monthlyBase * regularMonths for yearly input.
RegularGross(options, annual, regularMonths, effectiveMonths) ==
    IF options.salaryPeriod = Str("monthly")
    THEN QMul(Number(options.salaryAmount), regularMonths)
    ELSE QMul(QDiv(annual, effectiveMonths), regularMonths)

\* "1) Convert to annual", the Austrian split: with special payments
\* enabled and more months paid than the regular ones, the gross is the
\* regular portion plus the special one.
AtSplit(options, annual, regularMonths, effectiveMonths, sp) ==
    LET monthly == options.salaryPeriod = Str("monthly")
        split == Truthy(sp) /\ QLt(regularMonths, effectiveMonths)
        atRegularGrossAnnual == RegularGross(options, annual, regularMonths, effectiveMonths)
        atSpecialGrossAnnual ==
            IF monthly
            THEN QMul(Number(options.salaryAmount), QSub(effectiveMonths, regularMonths))
            ELSE QSub(annual, atRegularGrossAnnual)
        grossAnnual == IF split THEN QAdd(atRegularGrossAnnual, atSpecialGrossAnnual)
                       ELSE annual
    IN [split |-> split,
        atRegularGrossAnnual |-> atRegularGrossAnnual,
        atSpecialGrossAnnual |-> atSpecialGrossAnnual,
        grossAnnual |-> grossAnnual,
        grossMonthly |-> IF monthly THEN Number(options.salaryAmount)
                         ELSE toMonthly(grossAnnual)]

\* computeSalary from the flags to the end of "1) Convert to annual", for
\* options that passed the checks before: what the later steps read.
Annualised(h, options) ==
    LET taxContext == options.taxContext
        flags == Or(Get(h, taxContext, "calculationFlags"),
                    Or(Get(h, taxContext, "calculation_flags"), Undef))
        yearRules == Get(h, taxContext, "yearRules")
        special == Get(h, yearRules, "special_payments")
        sp == IF Get(h, taxContext, "countryCode") = Str("AT") /\ Truthy(special)
                 /\ Truthy(Get(h, special, "enabled"))
              THEN special ELSE Null
        regularMonths == Number(Or(Get(h, sp, "regular_months"), Num(12)))
        requestedMonths ==
            IF /\ ~IsNullish(options.salaryMonths)
               /\ options.salaryMonths # Str("")
               /\ IsFiniteNumber(options.salaryMonths)
            THEN Number(options.salaryMonths)
            ELSE Number(Or(Get(h, sp, "default_salary_months"), <<"num", regularMonths>>))
    IN [h |-> h,
        taxContext |-> taxContext,
        countryCode |-> Get(h, taxContext, "countryCode"),
        roundingMode |-> Or(Get(h, flags, "rounding_mode"), Str("nearest_cent")),
        currencyDecimals |-> IF IsNum(Get(h, flags, "currency_decimals"))
                             THEN Get(h, flags, "currency_decimals") ELSE Num(2),
        yearRules |-> yearRules,
        sp |-> sp]
       @@ AtSplit(options, toAnnual(options.salaryAmount, options.salaryPeriod).v,
                  regularMonths,
                  QMax(regularMonths, QFloor(QAdd(requestedMonths, Q(1, 2)))), sp)

\* computeContributionsAnnual(<portion's gross>,
\*     cloneSocialWithCeilingCap(sc, <portion's ceiling>),
\*     { countryCode: 'AT', atPortion: <portion> }), copy being the clone
\* and the heap that holds it.
PortionContributions(copy, grossAnnual, atPortion) ==
    computeContributionsAnnual(copy.h, grossAnnual, copy.v,
        [countryCode |-> Str("AT"), atPortion |-> Str(atPortion)])

\* "Merge (sum by id)"
SumById(contribRegular, contribSpecial) ==
    LET bothIds == DOMAIN contribRegular.employeeById
                       \cup DOMAIN contribSpecial.employeeById
    IN [employeeById |-> [id \in bothIds |->
            QAdd(AmountOf(contribRegular.employeeById, id),
                 AmountOf(contribSpecial.employeeById, id))],
        employerById |-> [id \in bothIds |->
            QAdd(AmountOf(contribRegular.employerById, id),
                 AmountOf(contribSpecial.employerById, id))],
        employeeTotal |-> QAdd(contribRegular.employeeTotal,
                               contribSpecial.employeeTotal),
        employerTotal |-> QAdd(contribRegular.employerTotal,
                               contribSpecial.employerTotal),
        deductibleEmployeeTotal |->
            QAdd(contribRegular.deductibleEmployeeTotal,
                 contribSpecial.deductibleEmployeeTotal)]

\* What computeSalary reads of the contributions of the whole gross.
Amounts(contrib) ==
    [employeeById |-> contrib.employeeById,
     employerById |-> contrib.employerById,
     employeeTotal |-> contrib.employeeTotal,
     employerTotal |-> contrib.employerTotal,
     deductibleEmployeeTotal |-> contrib.deductibleEmployeeTotal]

\* "Fallback: if loader did not populate taxContext.socialContributions,
\* read directly from yearRules": the heap after the assignment.
SocialFallback(h, taxContext, yearRules) ==
    LET sc == Get(h, taxContext, "socialContributions")
        fallback ==
            IF Truthy(yearRules) /\ Truthy(Get(h, yearRules, "social_contributions"))
            THEN [h |-> h, v |-> Get(h, yearRules, "social_contributions")]
            ELSE OrEmpty(h, sc)
    IN IF ~Truthy(sc) \/ KeysOf(h, sc) = {}
       THEN SetField(fallback.h, taxContext[2], "socialContributions", fallback.v)
       ELSE h

\* "2) Compute contributions", contribRegular and contribSpecial being the
\* contributions of the two portions of a split salary, and h1 the heap
\* the step leaves (the clones of a split are dropped with it).
Contributed(g, h1, contribRegular, contribSpecial) ==
    g @@ [h1 |-> h1,
          contrib |->
              IF g.split THEN SumById(contribRegular, contribSpecial)
              ELSE Amounts(computeContributionsAnnual(h1, g.grossAnnual,
                               Get(h1, g.taxContext, "socialContributions"),
                               [countryCode |-> g.countryCode, atPortion |-> Undef])),
          deductibleRegular |->
              IF g.split THEN contribRegular.deductibleEmployeeTotal ELSE Zero,
          deductibleSpecial |->
              IF g.split THEN contribSpecial.deductibleEmployeeTotal ELSE Zero]

Contributions(g) ==
    LET sc == Get(g.h, g.taxContext, "socialContributions")
        scCfg == Get(g.h, g.sp, "social_contributions")
    IN Contributed(g,
           IF g.split THEN g.h ELSE SocialFallback(g.h, g.taxContext, g.yearRules),
           PortionContributions(
               cloneSocialWithCeilingCap(g.h, sc, Get(g.h, scCfg, "regular_ceiling_annual")),
               g.atRegularGrossAnnual, "regular"),
           PortionContributions(
               cloneSocialWithCeilingCap(g.h, sc, Get(g.h, scCfg, "special_ceiling_annual")),
               g.atSpecialGrossAnnual, "special"))

\* FR: the professional expense deduction, within its min and max.
ProfessionalDeduction(h, frDed, netBeforeTaxAnnual) ==
    LET frRaw == QMul(netBeforeTaxAnnual,
                      IF ~IsNullish(Get(h, frDed, "rate"))
                      THEN Number(Get(h, frDed, "rate")) ELSE Q(1, 10))
        frFloored == QMax(IF ~IsNullish(Get(h, frDed, "min"))
                          THEN Number(Get(h, frDed, "min")) ELSE Zero, frRaw)
    IN IF ~IsNullish(Get(h, frDed, "max"))
       THEN QMin(Number(Get(h, frDed, "max")), frFloored) ELSE frFloored

\* A faulty taxable income: every employee contribution is deducted.
TaxableIncomeLessAll(c, allowancesAnnual) ==
    QMax(Zero, QSub(QSub(c.grossAnnual, c.contrib.employeeTotal), allowancesAnnual))

\* A faulty net before tax: only the deductible contributions are taken off.
NetBeforeTaxDeductibleOnly(grossAnnual, contrib) ==
    QMax(Zero, QSub(grossAnnual, contrib.deductibleEmployeeTotal))

\* netBeforeTaxAnnual = Math.max(0, grossAnnual - contrib.employeeTotal)
NetBeforeTax(grossAnnual, contrib) == QMax(Zero, QSub(grossAnnual, contrib.employeeTotal))

\* "4) Taxable income"
TaxableIncome(c, allowancesAnnual) ==
    LET taxablePreClamp == QSub(QSub(c.grossAnnual, c.contrib.deductibleEmployeeTotal),
                                allowancesAnnual)
        netBeforeTaxAnnual == NetBeforeTax(c.grossAnnual, c.contrib)
        frDed == Get(c.h1, Get(c.h1, c.yearRules, "income_tax"), "professional_deduction")
    IN IF c.countryCode = Str("FR")
       THEN IF Truthy(frDed) /\ Get(c.h1, frDed, "enabled") # Bool(FALSE)
            THEN QMax(Zero, QSub(netBeforeTaxAnnual,
                                 ProfessionalDeduction(c.h1, frDed, netBeforeTaxAnnual)))
            ELSE netBeforeTaxAnnual
       ELSE QMax(Zero, taxablePreClamp)

\* "3) Apply allowances" and "4) Taxable income"
WithTaxable(c, allowancesAnnual) ==
    c @@ [allowancesAnnual |-> allowancesAnnual,
          taxableAnnual |-> TaxableIncome(c, allowancesAnnual)]

Taxable(c) == WithTaxable(c, extractAnnualAllowances(c.h1, c.taxContext))

\* A faulty cap: the whole special taxable base.
PreferentialCapNone(specialTaxableBase, sixth) == specialTaxableBase

\* "Annual-sixth cap": preferentialCapBase
PreferentialCap(specialTaxableBase, sixth) == QMin(specialTaxableBase, sixth)

\* "AT special payments (13th/14th): preferential taxation within
\* annual-sixth": the amounts the two taxes are computed on.
SpecialPay(t) ==
    LET regularTaxableBase ==
            QMax(Zero, QSub(QSub(t.atRegularGrossAnnual, t.deductibleRegular),
                            t.allowancesAnnual))
        specialTaxableBase == QMax(Zero, QSub(t.atSpecialGrossAnnual, t.deductibleSpecial))
        sixth == QMax(Zero, QDiv(t.atRegularGrossAnnual, Q(6, 1)))
        preferentialCapBase == PreferentialCap(specialTaxableBase, sixth)
        overflowToRegular == QMax(Zero, QSub(specialTaxableBase, preferentialCapBase))
        specialAllowance == Number(Or(Get(t.h1, t.sp, "allowance_annual"), Num(0)))
    IN [regularTaxableBase |-> regularTaxableBase,
        specialTaxableBase |-> specialTaxableBase,
        sixth |-> sixth,
        preferentialCapBase |-> preferentialCapBase,
        overflowToRegular |-> overflowToRegular,
        preferentialTaxable |-> QMax(Zero, QSub(preferentialCapBase, specialAllowance))]

\* The extraCtx computeSalary hands to computeTaxByRules.
ExtraCtx(t) ==
    [countryCode |-> t.countryCode,
     taxClass |-> Or(Get(t.h1, t.taxContext, "taxClass"), Null),
     childrenCount |->
         IF ~IsNullish(Get(t.h1, t.taxContext, "childrenCount"))
         THEN Number(Get(t.h1, t.taxContext, "childrenCount")) ELSE Zero,
     yearRules |-> Or(t.yearRules, Null)]

\* The tax credits of the year's rules, none where it has no such rules.
Credits(t) ==
    LET creditRules == Get(t.h1, Get(t.h1, t.yearRules, "income_tax"), "tax_credits")
    IN IF Truthy(t.yearRules) /\ Truthy(creditRules)
       THEN computeTaxCreditsAnnual(t.h1, t.grossAnnual, creditRules)
       ELSE [total |-> Zero, byId |-> [id \in {} |-> Zero]]

\* A faulty reduction: credits above the tax are paid out.
ReducedBelowZero(incomeTaxTotalAnnual, taxCreditsTotalAnnual) ==
    QSub(incomeTaxTotalAnnual, taxCreditsTotalAnnual)

\* reduced = Math.max(0, incomeTaxTotalAnnual - taxCreditsTotalAnnual)
Reduced(incomeTaxTotalAnnual, taxCreditsTotalAnnual) ==
    QMax(Zero, QSub(incomeTaxTotalAnnual, taxCreditsTotalAnnual))

\* incomeTax and incomeTaxTotalAnnual once the credits are taken off: main
\* is the tax by the main rules (regularTax for a split salary), specialTax
\* the tax on the preferential part of a split salary.
WithIncomeTax(t, at, mainRules, main, specialTax, credits) ==
    t @@ [at |-> at,
          mainRules |-> mainRules,
          main |-> main,
          specialTax |-> IF t.split THEN specialTax ELSE TaxOf(Zero, "none", ""),
          credits |-> credits,
          incomeTaxTotalAnnual |->
              Reduced(IF t.split THEN QAdd(main.amount, specialTax.amount)
                      ELSE main.amount,
                      credits.total)]

\* "5) Income tax" on the amounts at of a split salary, or on the taxable
\* income.
IncomeTaxOn(registry, t, at) ==
    WithIncomeTax(t, at, Get(t.h1, t.taxContext, "incomeTax"),
        IF ~t.split /\ t.countryCode = Str("ES")
        THEN computeSpainIncomeTax(t.h1, registry, t.taxableAnnual, t.taxContext,
                                   t.currencyDecimals, t.roundingMode)
        ELSE computeTaxByRules(t.h1, registry,
                 IF t.split
                 THEN QMax(Zero, QAdd(at.regularTaxableBase, at.overflowToRegular))
                 ELSE t.taxableAnnual,
                 Get(t.h1, t.taxContext, "incomeTax"),
                 t.currencyDecimals, t.roundingMode, ExtraCtx(t)),
        computeTaxByRules(t.h1, registry, at.preferentialTaxable,
            Or(Get(t.h1, t.sp, "income_tax"), Null),
            t.currencyDecimals, t.roundingMode, ExtraCtx(t)),
        Credits(t))

IncomeTax(registry, t) == IncomeTaxOn(registry, t, SpecialPay(t))

\* "6) Other taxes" to "10) Build annual + monthly rounded outputs": the
\* result, or the error step 5 threw.
Result(options, x, otherTaxes) ==
    LET round(v) == roundCurrency(v, x.currencyDecimals, x.roundingMode)
        taxesTotalAnnual == EmployeeTaxes(x.incomeTaxTotalAnnual, otherTaxes)
        netAnnual == QSub(QSub(x.grossAnnual, x.contrib.employeeTotal), taxesTotalAnnual)
        tcoAnnual == QAdd(QAdd(x.grossAnnual, x.contrib.employerTotal),
                          otherTaxes.employerTotal)
        benefitsAnnual == QMax(Zero, Number(Or(options.benefitsAnnual, Num(0))))
        column(scale(_)) ==
            [gross |-> round(IF scale(Q(12, 1)) = Q(1, 1) THEN x.grossMonthly
                             ELSE x.grossAnnual),
             benefits |-> round(scale(benefitsAnnual)),
             employeeContribById |->
                 [id \in DOMAIN x.contrib.employeeById |->
                     round(scale(x.contrib.employeeById[id]))],
             employerContribById |->
                 [id \in DOMAIN x.contrib.employerById |->
                     round(scale(x.contrib.employerById[id]))],
             employeeContribTotal |-> round(scale(x.contrib.employeeTotal)),
             employerContribTotal |-> round(scale(x.contrib.employerTotal)),
             allowances |-> round(scale(x.allowancesAnnual)),
             taxableIncome |-> round(scale(x.taxableAnnual)),
             incomeTaxTotal |-> round(scale(x.incomeTaxTotalAnnual)),
             otherTaxesTotal |-> round(scale(otherTaxes.total)),
             taxesTotal |-> round(scale(taxesTotalAnnual)),
             net |-> round(scale(netAnnual)),
             tco |-> round(scale(tcoAnnual))]
        asIs(v) == v
        annual == column(asIs) @@
            [employeeOtherTaxesTotal |-> round(otherTaxes.employeeTotal),
             employerOtherTaxesTotal |-> round(otherTaxes.employerTotal),
             employeeOtherTaxesById |-> otherTaxes.employeeById,
             employerOtherTaxesById |-> otherTaxes.employerById]
        result ==
            [meta |-> [countryCode |-> x.countryCode,
                       countryName |-> Get(x.h1, x.taxContext, "countryName"),
                       year |-> Get(x.h1, x.taxContext, "year"),
                       currency |-> Get(x.h1, x.taxContext, "currency"),
                       inputPeriod |-> options.salaryPeriod,
                       roundingMode |-> x.roundingMode,
                       currencyDecimals |-> x.currencyDecimals],
             taxContext |-> x.taxContext,
             annual |-> annual,
             monthly |-> column(toMonthly),
             incomeTax |-> [total |-> x.incomeTaxTotalAnnual,
                            main |-> QMax(Zero, QSub(x.main.amount, x.credits.total)),
                            type |-> x.main.type,
                            note |-> x.main.note,
                            credits |-> x.credits],
             otherTaxes |-> otherTaxes,
             at |-> [split |-> x.split,
                     regularGrossAnnual |-> IF x.split THEN x.atRegularGrossAnnual ELSE Zero,
                     specialGrossAnnual |-> IF x.split THEN x.atSpecialGrossAnnual ELSE Zero,
                     taxablePreferential |->
                         IF x.split THEN x.at.preferentialTaxable ELSE Zero,
                     taxableBase |-> IF x.split THEN x.at.specialTaxableBase ELSE Zero,
                     regularTaxableBase |->
                         IF x.split THEN x.at.regularTaxableBase ELSE Zero,
                     capBase |-> IF x.split THEN x.at.preferentialCapBase ELSE Zero,
                     sixth |-> IF x.split THEN x.at.sixth ELSE Zero,
                     overflowToRegular |-> IF x.split THEN x.at.overflowToRegular ELSE Zero,
                     specialAmount |-> IF x.split THEN x.specialTax.amount ELSE Zero]]
    IN IF ~x.split /\ x.countryCode # Str("ES") /\ ~Truthy(x.mainRules)
       THEN Failed(x.h1, EngineError("app.error.generic", "missing_income_tax_rules"))
       ELSE IF x.split /\ ~Truthy(x.mainRules)
       THEN Failed(x.h1, EngineError("app.error.generic", "missing_income_tax_rules"))
       ELSE IF ~x.main.ok THEN Failed(x.h1, x.main.err)
       ELSE IF x.split /\ ~x.specialTax.ok THEN Failed(x.h1, x.specialTax.err)
       ELSE [h |-> x.h1, ok |-> TRUE, err |-> NoEngineError, result |-> result]

Outcome(options, x) ==
    Result(options, x,
           computeOtherTaxesAnnual(x.h1, x.grossAnnual, x.taxableAnnual,
               x.incomeTaxTotalAnnual, Get(x.h1, x.taxContext, "otherTaxes"),
               x.currencyDecimals, x.roundingMode))

\* computeSalary(options)
computeSalary(h, registry, options) ==
    LET taxContext == options.taxContext
        salaryAmount == options.salaryAmount
    IN IF ~Truthy(taxContext)
       THEN Failed(h, EngineError("app.error.generic", "missing_tax_context"))
       ELSE IF MissingTaxClass(h, taxContext)
       THEN Failed(h, EngineError("error.invalidTaxClass", "missing_tax_class_required"))
       ELSE IF ~Truthy(Get(h, taxContext, "calcMode"))
       THEN Failed(h, EngineError("app.error.generic", "missing_calc_mode"))
       ELSE IF CalcModeMismatch(h, taxContext)
       THEN Failed(h, EngineError("app.error.generic", "calc_mode_mismatch"))
       ELSE IF IsNullish(salaryAmount) \/ salaryAmount = Str("")
       THEN Failed(h, EngineError("error.noSalary", ""))
       ELSE IF ~toAnnual(salaryAmount, options.salaryPeriod).ok
       THEN Failed(h, toAnnual(salaryAmount, options.salaryPeriod).err)
       ELSE Outcome(options,
                    IncomeTax(registry, Taxable(Contributions(Annualised(h, options)))))

(***************************************************************************)
(* The loader as the page drives it.  An invocation runs from one await to *)
(* the next without interruption; between awaits the invocations           *)
(* interleave.                                                             *)
(***************************************************************************)
Slots == 1..MaxSlots

NoOptions == [year |-> Undef, taxClass |-> Undef, region |-> Undef, childrenCount |-> Undef]

IdleCall ==
    [pc |-> "idle", kind |-> "", code |-> "", doc |-> NoValue, fetched |-> FALSE,
     response |-> "", body |-> "", late |-> FALSE, retry |-> FALSE, err |-> NoError,
     o |-> NoOptions, ctx |-> NoValue]

\* The country codes callers pass.
CountryCodeInputs == {Str("DE"), Str("de"), Str("ES"), Str("AT"), Str("XX"), Undef}

\* The other options callers pass with a country code.  They are read
\* before the document is awaited and used only after it: the model draws
\* them when they are used.
OptionInputs(code) ==
    LET given(y, t, r, n) == [year |-> y, taxClass |-> t, region |-> r, childrenCount |-> n]
    IN CASE code = "DE" ->
                {given(Num(2026), Undef, Undef, Undef),
                 given(Num(2026), Str("I"), Undef, Undef),
                 given(Num(2026), Str("ii"), Undef, Num(2)),
                 given(Str("2026"), Str(" iii"), Undef, Undef),
                 given(Num(2026), Str("IX"), Undef, Undef),
                 given(Num(2030), Str("I"), Undef, Undef)}
         [] code = "ES" ->
                {given(Num(2026), Undef, Undef, Undef),
                 given(Num(2026), Undef, Str("madrid"), Num(2)),
                 given(Num(2026), Undef, Str("sevilla"), Undef),
                 given(Num(2030), Undef, Str("madrid"), Undef)}
         [] OTHER ->
                {given(Num(2026), Undef, Undef, Undef),
                 given(Num(2026), Str("I"), Undef, Num(2)),
                 given(Num(2030), Undef, Undef, Undef)}

InitLoader ==
    /\ heap = << >>
    /\ rulesCache = [c \in {} |-> NoValue]
    /\ calls = [k \in Slots |-> IdleCall]
    /\ started = 0
    /\ DEBUG_STRICT \in BOOLEAN
    /\ pristine = [i \in {} |-> EmptyObj]
    /\ firstLoaded = [c \in {} |-> NoValue]

\* History: the invocation recorded in j fetched for the code and failed.
FailedFetch(j, code) ==
    calls[j].pc = "failed" /\ calls[j].fetched /\ calls[j].code = code

\* loadCountryRules(countryCode), directly (kind "load") or as the first
\* step of buildTaxContext(options) (kind "build"), up to its first await.
\* The invocation is recorded in the first record that is not in use.
StartCall(k, kind, countryCode) ==
    /\ calls[k].pc \in {"idle", "done", "failed"}
    /\ \A j \in 1..(k - 1) : calls[j].pc \notin {"idle", "done", "failed"}
    /\ started < MaxCalls
    /\ started' = started + 1
    /\ LET code == toUpperCase(String(Or(countryCode, Str(""))))
           call == [IdleCall EXCEPT !.kind = kind, !.code = code,
                                    !.late = code \in DOMAIN firstLoaded,
                                    !.retry = \E j \in Slots : FailedFetch(j, code)]
       IN calls' = [calls EXCEPT ![k] =
              IF code = ""
              THEN [call EXCEPT !.pc = "failed",
                                !.err = RulesError("error.noCountryRules", "", FALSE)]
              ELSE IF code \in DOMAIN rulesCache
              THEN [call EXCEPT !.pc = "loaded", !.doc = rulesCache[code]]
              ELSE IF code \notin DOMAIN COUNTRY_FILE_MAP
              THEN [call EXCEPT !.pc = "failed",
                                !.err = RulesError("error.noCountryRules", "", FALSE)]
              ELSE [call EXCEPT !.pc = "fetch", !.fetched = TRUE]]
    /\ UNCHANGED <<heap, rulesCache, DEBUG_STRICT, pristine, firstLoaded, mergeVars, partVars, engineVars, registryVars>>

\* A faulty error for a response that is not ok: no status in its details.
StatusErrorBare == RulesError("error.noCountryRules", "", FALSE)

\* The error for a response that is not ok: { countryCode, status }.
StatusError == RulesError("error.noCountryRules", "", TRUE)

\* response = await fetch(url): it rejects, or answers with a status.
FetchSettle(k, outcome) ==
    /\ calls[k].pc = "fetch"
    /\ calls' = [calls EXCEPT ![k] =
           CASE outcome = "rejected" ->
                    [@ EXCEPT !.pc = "failed", !.response = outcome,
                              !.err = RulesError("error.noCountryRules", "network", FALSE)]
             [] outcome = "not_ok" ->
                    [@ EXCEPT !.pc = "failed", !.response = outcome,
                              !.err = StatusError]
             [] OTHER -> [@ EXCEPT !.pc = "json", !.response = outcome]]
    /\ UNCHANGED <<heap, rulesCache, started, DEBUG_STRICT, pristine, firstLoaded, mergeVars, partVars, engineVars, registryVars>>

\* A faulty validation: any object passes.
HasObject(h, json) == Truthy(json) /\ IsRef(json)

\* "Minimal structural validation": json && typeof json === 'object' &&
\* json.years
HasYears(h, json) == Truthy(json) /\ IsRef(json) /\ Truthy(Get(h, json, "years"))

\* What loadCountryRules does with the settled response.json(): parsed is
\* the value a well-formed body parses to and the heap that holds it.
Validated(k, code, body, parsed) ==
    /\ LET new == (Len(heap) + 1)..Len(parsed.h)
       IN IF body = "invalid_json"
          THEN /\ calls' = [calls EXCEPT ![k] =
                      [@ EXCEPT !.pc = "failed", !.body = body,
                                !.err = RulesError("error.noCountryRules",
                                                   "invalid_json", FALSE)]]
               /\ UNCHANGED <<heap, rulesCache, pristine, firstLoaded>>
          ELSE IF ~HasYears(parsed.h, parsed.v)
          THEN \* the rejected value is dropped with the invocation
               /\ calls' = [calls EXCEPT ![k] =
                      [@ EXCEPT !.pc = "failed", !.body = body,
                                !.err = RulesError("error.noCountryRules",
                                                   "missing_years", FALSE)]]
               /\ UNCHANGED <<heap, rulesCache, pristine, firstLoaded>>
          ELSE /\ heap' = parsed.h
               /\ rulesCache' = [c \in DOMAIN rulesCache \cup {code} |->
                                    IF c = code THEN parsed.v ELSE rulesCache[c]]
               /\ pristine' = [i \in DOMAIN pristine \cup new |->
                                  IF i \in new THEN parsed.h[i] ELSE pristine[i]]
               /\ firstLoaded' = [c \in DOMAIN firstLoaded \cup {code} |->
                                     IF c \in DOMAIN firstLoaded
                                     THEN firstLoaded[c] ELSE parsed.v]
               /\ calls' = [calls EXCEPT ![k] =
                      [@ EXCEPT !.pc = "loaded", !.body = body, !.doc = parsed.v]]

\* json = await response.json(), the validation and rulesCache.set.
JsonSettle(k, body) ==
    /\ calls[k].pc = "json"
    /\ body \in Bodies(calls[k].code)
    /\ Validated(k, calls[k].code, body, ParseBody(heap, body))
    /\ UNCHANGED <<started, DEBUG_STRICT, mergeVars, partVars, engineVars, registryVars>>

\* A direct loadCountryRules call hands the document to its caller.
ReturnRules(k) ==
    /\ calls[k].pc = "loaded"
    /\ calls[k].kind = "load"
    /\ calls' = [calls EXCEPT ![k] = [@ EXCEPT !.pc = "done"]]
    /\ UNCHANGED <<heap, rulesCache, started, DEBUG_STRICT, pristine, firstLoaded, mergeVars, partVars, engineVars, registryVars>>

\* buildTaxContext returns the context r.ctx or throws r.err.
Settled(k, o, r) ==
    /\ heap' = r.h
    /\ calls' = [calls EXCEPT ![k] =
           [@ EXCEPT !.pc = IF r.ok THEN "done" ELSE "failed",
                     !.o = o, !.err = r.err, !.ctx = r.ctx]]

\* buildTaxContext resumes after "await loadCountryRules(countryCode)".
ContinueBuild(k, o) ==
    /\ calls[k].pc = "loaded"
    /\ calls[k].kind = "build"
    /\ o \in OptionInputs(calls[k].code)
    /\ Settled(k, o, BuildContext(heap, calls[k].code, calls[k].doc, o, DEBUG_STRICT))
    /\ UNCHANGED <<rulesCache, started, DEBUG_STRICT, pristine, firstLoaded, mergeVars, partVars, engineVars, registryVars>>

IdleLoader ==
    /\ rulesCache = [c \in {} |-> NoValue]
    /\ calls = [k \in Slots |-> IdleCall]
    /\ started = 0
    /\ DEBUG_STRICT = FALSE
    /\ pristine = [i \in {} |-> EmptyObj]
    /\ firstLoaded = [c \in {} |-> NoValue]

IdleMerge == mergeIn = NoValue /\ mergeOut = NoValue

\* A history variable before the call it records.
NotCalled == [called |-> FALSE]

IdleParts ==
    /\ contribIn = NoValue
    /\ contribOut = NotCalled
    /\ taxIn = NoValue
    /\ taxRuns = << >>

\* The registry as app.js leaves it, and no register call since.
IdleRegistry == registryObj = SalaryFormulaRegistry /\ registrations = << >>

IdleEngine ==
    /\ lastContext = Null
    /\ built = NotCalled
    /\ salary = NotCalled
    /\ computes = 0
    /\ combined = NotCalled

Init == InitLoader /\ IdleMerge /\ IdleParts /\ IdleEngine /\ IdleRegistry

Next ==
    \/ \E k \in Slots, kind \in {"load", "build"}, c \in CountryCodeInputs :
           StartCall(k, kind, c)
    \/ \E k \in Slots, outcome \in {"rejected", "not_ok", "ok"} : FetchSettle(k, outcome)
    \/ \E k \in Slots, body \in {"invalid_json", "scalar", "no_years", "DE",
                                 "DE_no_parameters", "ES", "AT"} : JsonSettle(k, body)
    \/ \E k \in Slots : ReturnRules(k)
    \/ \E k \in Slots, o \in UNION {OptionInputs(c) : c \in {"DE", "ES", "AT"}} :
           ContinueBuild(k, o)

Spec == Init /\ [][Next]_vars

\* loadCountryRules called directly, by callers that build no context.
NextLoad ==
    \/ \E k \in Slots, c \in CountryCodeInputs : StartCall(k, "load", c)
    \/ \E k \in Slots, outcome \in {"rejected", "not_ok", "ok"} : FetchSettle(k, outcome)
    \/ \E k \in Slots, body \in {"invalid_json", "scalar", "no_years", "DE",
                                 "DE_no_parameters", "ES", "AT"} : JsonSettle(k, body)
    \/ \E k \in Slots : ReturnRules(k)

SpecLoad == Init /\ [][NextLoad]_vars

(***************************************************************************)
(* Arguments for deepMerge: chains of nested objects.  A chain is a        *)
(* sequence of node descriptions; every node but the last holds the next   *)
(* node under key "a".                                                     *)
(***************************************************************************)
LeafA == {"none", "num", "null", "arr"}
LeafB == {"none", "num", "arr"}

RECURSIVE Chains(_)
Chains(d) ==
    IF d = 0 THEN {}
    ELSE {<<[a |-> x, b |-> y]>> : x \in LeafA, y \in LeafB}
         \cup {<<[a |-> "child", b |-> y]>> \o c : y \in LeafB, c \in Chains(d - 1)}

\* The value a node description gives a key; tint tells base from override.
ChainValue(choice, tint, next) ==
    CASE choice = "num" -> Num(tint)
      [] choice = "null" -> Null
      [] choice = "arr" -> Arr(<<Num(tint)>>)
      [] choice = "child" -> Ref(next)
      [] OTHER -> Undef

ChainObject(node, tint, next) ==
    [k \in {x \in {"a", "b"} : node[x] # "none"} |->
        ChainValue(node[k], tint, next)]

\* The objects of a chain, the first of them at index first.
ChainHeap(chain, tint, first) ==
    [i \in 1..Len(chain) |-> ChainObject(chain[i], tint, first + i)]

\* A top-level argument: a chain's root, or no value at all.
MergeArgs == {<<>>} \cup Chains(MaxDepth)

InitMerge ==
    \E cb \in MergeArgs, co \in MergeArgs :
        /\ heap = ChainHeap(cb, 1, 1) \o ChainHeap(co, 2, Len(cb) + 1)
        /\ mergeIn = [base |-> IF cb = <<>> THEN Null ELSE Ref(1),
                      override |-> IF co = <<>> THEN Undef ELSE Ref(Len(cb) + 1),
                      heap |-> heap]
        /\ mergeOut = NoValue
        /\ IdleLoader /\ IdleParts /\ IdleEngine /\ IdleRegistry

\* deepMerge(base, override)
DeepMergeCall ==
    /\ mergeOut = NoValue
    /\ LET m == deepMerge(heap, mergeIn.base, mergeIn.override)
       IN /\ heap' = m.h
          /\ mergeOut' = m.v
    /\ UNCHANGED <<mergeIn, loaderVars, partVars, engineVars, registryVars>>

NextMerge == DeepMergeCall

SpecMerge == InitMerge /\ [][NextMerge]_vars

(***************************************************************************)
(* computeContributionsAnnual on its own: one named scheme and one entry   *)
(* of the other list, for a range of gross amounts.                        *)
(***************************************************************************)
Field(key, v) == IF v = NoValue THEN EmptyObj ELSE key :> v

\* A scheme with a flat employee rate.
Scheme(applies, rate, floor, ceiling) ==
    ("applies" :> Bool(applies)) @@ ("employee_rate" :> rate)
    @@ ("employer_rate" :> Dec(2, 10)) @@ ("deductible_for_tax" :> Bool(TRUE))
    @@ Field("floor", floor) @@ Field("ceiling", ceiling)

\* An entry with employee brackets and an employer threshold.
BracketedScheme ==
    Obj(("applies" :> Bool(TRUE)) @@ ("ceiling" :> Num(60000))
        @@ ("employee" :> Obj("brackets" :> Arr(<<Bracket(Num(12570), Num(0)),
                                                  Bracket(Num(50270), Dec(8, 100)),
                                                  Bracket(Null, Dec(2, 100))>>)))
        @@ ("employer" :> Obj(("threshold" :> Num(5000)) @@ ("rate" :> Dec(15, 100)))))

SchemeInputs ==
    {Scheme(a, r, f, c) :
        a \in BOOLEAN, r \in {Dec(1, 10), Dec(295, 10000)},
        f \in {NoValue, Num(0), Num(10000)},
        c \in {NoValue, Null, Num(50000)}}

GrossInputs ==
    {Q(-1000, 1), Q(0, 1), Q(5000, 1), Q(10000, 1), Q(4999999, 100), Q(50000, 1),
     Q(80000, 1), Q(1000000, 1)}

InitContributions ==
    \E scheme \in SchemeInputs, gross \in GrossInputs, country \in {Undef, Str("AT")} :
        /\ heap = << ("pension" :> Ref(2)) @@ ("other" :> Arr(<<BracketedScheme>>)),
                      scheme >>
        /\ contribIn = [grossAnnual |-> gross, socialContribRules |-> Ref(1),
                        opts |-> [countryCode |-> country, atPortion |-> Undef]]
        /\ contribOut = NotCalled
        /\ taxIn = NoValue
        /\ taxRuns = << >>
        /\ IdleLoader /\ IdleMerge /\ IdleEngine /\ IdleRegistry

\* computeContributionsAnnual(grossAnnual, socialContribRules, opts)
ComputeContributions ==
    /\ ~contribOut.called
    /\ contribOut' = [called |-> TRUE,
                      out |-> computeContributionsAnnual(heap, contribIn.grossAnnual,
                                  contribIn.socialContribRules, contribIn.opts)]
    /\ UNCHANGED <<heap, contribIn, taxIn, taxRuns, loaderVars, mergeVars, engineVars, registryVars>>

NextContributions == ComputeContributions

SpecContributions == InitContributions /\ [][NextContributions]_vars

(***************************************************************************)
(* computeTaxByRules on its own: progressive rules, called for two taxable *)
(* incomes.                                                                *)
(***************************************************************************)
\* window.SalaryFormulaRegistry once app.js has run.
Registry == [loaded |-> TRUE, fns |-> SalaryFormulaRegistry]

ScheduleInputs ==
    {<<Bracket(Num(12450), Dec(95, 1000)), Bracket(Num(20200), Dec(12, 100)),
       Bracket(Null, Dec(15, 100))>>,
     <<Bracket(Num(13000), Num(0)), Bracket(Num(21000), Dec(2, 10)),
       Bracket(Num(35000), Dec(3, 10)), Bracket(Null, Dec(4, 10))>>,
     <<Bracket(Null, Dec(125, 1000))>>,
     <<Bracket(Num(12450), Dec(19, 100)), Bracket(Num(20200), Dec(24, 100))>>}

TaxableInputs ==
    {Q(-100, 1), Q(0, 1), Q(5000, 1), Q(1244999, 100), Q(12450, 1), Q(1245001, 100),
     Q(13000, 1), Q(20200, 1), Q(2020001, 100), Q(21000, 1), Q(70001, 2), Q(100000, 1)}

InitTax ==
    \E schedule \in ScheduleInputs, decimals \in {Num(2), Num(0)} :
        /\ heap = << ("type" :> Str("progressive")) @@ ("brackets" :> Arr(schedule)) >>
        /\ taxIn = [taxRules |-> Ref(1), currencyDecimals |-> decimals,
                    roundingMode |-> Str("nearest_cent")]
        /\ taxRuns = << >>
        /\ contribIn = NoValue
        /\ contribOut = NotCalled
        /\ IdleLoader /\ IdleMerge /\ IdleEngine /\ IdleRegistry

\* computeTaxByRules(taxableAnnual, taxRules, currencyDecimals, roundingMode)
ComputeTax(taxableAnnual) ==
    /\ Len(taxRuns) < MaxRuns
    /\ taxRuns' = Append(taxRuns,
           [taxableAnnual |-> taxableAnnual,
            out |-> computeTaxByRules(heap, Registry, taxableAnnual, taxIn.taxRules,
                        taxIn.currencyDecimals, taxIn.roundingMode, NoExtra)])
    /\ UNCHANGED <<heap, contribIn, contribOut, taxIn, loaderVars, mergeVars, engineVars, registryVars>>

NextTax == \E taxableAnnual \in TaxableInputs : ComputeTax(taxableAnnual)

SpecTax == InitTax /\ [][NextTax]_vars

(***************************************************************************)
(* computeTaxByRules on its own: formula rules, with the registry as app.js *)
(* leaves it and as a caller has added to it.                              *)
(***************************************************************************)
\* The registry with the functions a caller registered.
CallerRegistry == [loaded |-> TRUE, fns |-> SalaryFormulaRegistry @@ RegisteredByCaller]

\* window.SalaryFormulaRegistry when app.js has not run.
NoRegistry == [loaded |-> FALSE, fns |-> [m \in {} |-> ""]]

\* The methods rule documents name; NoValue for a formula without method.
MethodInputs ==
    {NoValue, Str("de_estg_2026"), Str("de_estg_2027"), Str("")}
        \cup {Str(m) : m \in DOMAIN RegisteredByCaller}

\* The formula object of a rule: use_formula and method as given, NoValue
\* for a field that is left out; parameters too unless left out.
FormulaObject(useFormula, method, parameters) ==
    Field("use_formula", useFormula) @@ Field("method", method)
    @@ Field("parameters", parameters)

\* The German rules with another formula object, and with or without the
\* tariff among the parameters.
FormulaHeap(formula, tariff) ==
    [i \in 1..Len(DocDE) |->
        IF i = 5 THEN formula
        ELSE IF i = 6 THEN Field("tariff", tariff)
        ELSE DocDE[i]]

\* The rounding modes the registry documents for its functions.
RoundingModes == {Str("nearest_cent"), Str("up"), Str("down")}

FormulaTaxableInputs ==
    {Q(0, 1), Q(10000, 1), Q(15000, 1), Q(30000, 1), Q(80000, 1), Q(300000, 1)}

InitFormula ==
    \E useFormula \in {NoValue, Bool(TRUE), Bool(FALSE)}, method \in MethodInputs,
       parameters \in {NoValue, Ref(6)}, tariff \in {NoValue, Ref(7), Num(1)},
       registry \in {CallerRegistry, NoRegistry}, roundingMode \in RoundingModes :
        /\ heap = FormulaHeap(FormulaObject(useFormula, method, parameters), tariff)
        /\ taxIn = [taxRules |-> Ref(4), currencyDecimals |-> Num(2),
                    roundingMode |-> roundingMode, registry |-> registry]
        /\ taxRuns = << >>
        /\ contribIn = NoValue
        /\ contribOut = NotCalled
        /\ IdleLoader /\ IdleMerge /\ IdleEngine /\ IdleRegistry

\* computeTaxByRules(taxableAnnual, taxRules, currencyDecimals, roundingMode)
\* with the registry of the page.
ComputeFormulaTax(taxableAnnual) ==
    /\ Len(taxRuns) < MaxRuns
    /\ taxRuns' = Append(taxRuns,
           [taxableAnnual |-> taxableAnnual,
            out |-> computeTaxByRules(heap, taxIn.registry, taxableAnnual, taxIn.taxRules,
                        taxIn.currencyDecimals, taxIn.roundingMode, NoExtra)])
    /\ UNCHANGED <<heap, contribIn, contribOut, taxIn, loaderVars, mergeVars, engineVars, registryVars>>

NextFormula == \E taxableAnnual \in FormulaTaxableInputs : ComputeFormulaTax(taxableAnnual)

SpecFormula == InitFormula /\ [][NextFormula]_vars

(***************************************************************************)
(* The registry on its own: callers register functions after the page has  *)
(* loaded.                                                                 *)
(***************************************************************************)
\* The method names and the functions callers pass to register.
MethodNameInputs == {Str("custom"), Str("de_estg_2026"), Str(""), Num(1), Undef}

FnInputs == {Fn("first"), Fn("second"), Str("first"), Undef}

InitRegistry ==
    /\ heap = << >>
    /\ IdleLoader /\ IdleMerge /\ IdleParts /\ IdleEngine /\ IdleRegistry

\* SalaryFormulaRegistry.register(methodName, fn)
Register(methodName, fn) ==
    /\ Len(registrations) < MaxRegistrations
    /\ registryObj' = register(registryObj, methodName, fn)
    /\ registrations' = Append(registrations,
           [methodName |-> methodName, fn |-> fn,
            before |-> registryObj, after |-> register(registryObj, methodName, fn)])
    /\ UNCHANGED <<heap, loaderVars, mergeVars, partVars, engineVars>>

NextRegistry == \E methodName \in MethodNameInputs, fn \in FnInputs : Register(methodName, fn)

SpecRegistry == InitRegistry /\ [][NextRegistry]_vars

(***************************************************************************)
(* The engine as its callers drive it: a rule document is in the cache,    *)
(* contexts are built from it and salaries computed with them.             *)
(***************************************************************************)
EngineBodies ==
    {"DE", "DE_no_parameters", "ES", "AT", "AT_care", "NL", "NL_net_levy", "SE", "FR",
     "FR_no_deduction"}

BodyCode(body) ==
    IF body = "DE_no_parameters" THEN "DE"
    ELSE IF body = "FR_no_deduction" THEN "FR"
    ELSE IF body = "AT_care" THEN "AT"
    ELSE IF body = "NL_net_levy" THEN "NL" ELSE body

\* The state a successful loadCountryRules leaves: parsed is the document
\* and the heap that holds it.
Loaded(code, parsed) ==
    /\ heap = parsed.h
    /\ rulesCache = (code :> parsed.v)
    /\ calls = [k \in Slots |-> IdleCall]
    /\ started = 0
    /\ DEBUG_STRICT \in BOOLEAN
    /\ pristine = [i \in 1..Len(parsed.h) |-> parsed.h[i]]
    /\ firstLoaded = (code :> parsed.v)

InitEngine ==
    \E body \in EngineBodies :
        /\ Loaded(BodyCode(body), ParseBody(<< >>, body))
        /\ IdleMerge /\ IdleParts /\ IdleEngine /\ IdleRegistry

\* The caller keeps the context buildTaxContext returned, r.ctx.
Returned(code, o, r) ==
    /\ heap' = r.h
    /\ lastContext' = IF r.ok THEN r.ctx ELSE lastContext
    /\ built' = [called |-> TRUE, code |-> code, o |-> o, before |-> heap,
                 after |-> r.h, ok |-> r.ok, err |-> r.err, ctx |-> r.ctx]

\* buildTaxContext(options) for a country whose document is cached.
BuildTaxContext(code, o) ==
    /\ started < MaxBuilds
    /\ code \in DOMAIN rulesCache
    /\ o \in OptionInputs(code)
    /\ Returned(code, o, BuildContext(heap, code, rulesCache[code], o, DEBUG_STRICT))
    /\ started' = started + 1
    /\ UNCHANGED <<rulesCache, calls, DEBUG_STRICT, pristine, firstLoaded, salary,
                   computes, combined, mergeVars, partVars, registryVars>>

\* The salary inputs callers pass.
SalaryInput(amount, period, months, benefits) ==
    [salaryAmount |-> amount, salaryPeriod |-> Str(period), salaryMonths |-> months,
     benefitsAnnual |-> benefits]

PlainInput == SalaryInput(Num(3000), "monthly", Undef, Undef)

SalaryInputs ==
    {PlainInput,
     SalaryInput(Dec(222501, 100), "monthly", Num(14), Undef),
     SalaryInput(Num(2225), "monthly", Num(14), Undef),
     SalaryInput(Num(2400), "monthly", Num(12), Undef),
     SalaryInput(Num(2500), "monthly", Num(12), Num(1200)),
     SalaryInput(Num(30150), "yearly", Undef, Undef),
     SalaryInput(Num(6000), "yearly", Undef, Undef),
     SalaryInput(Num(80000), "yearly", Num(14), Undef),
     SalaryInput(Num(126000), "yearly", Num(14), Undef),
     SalaryInput(Num(3000), "monthly", Num(16), Undef),
     SalaryInput(Num(48000), "yearly", Num(16), Undef),
     SalaryInput(Num(0), "yearly", Undef, Undef),
     SalaryInput(Undef, "monthly", Undef, Undef),
     SalaryInput(Str(""), "yearly", Undef, Undef),
     SalaryInput(Num(-1), "monthly", Undef, Undef),
     SalaryInput(Num(3000), "weekly", Undef, Undef)}

\* The contexts callers pass: the one buildTaxContext returned, nothing, or
\* a copy of it with one field set by the caller ({...ctx, year: '2027'});
\* the calcMode object is frozen, so a caller changing it passes a copy.
\* "no_social" is the context "the loader did not populate" with
\* socialContributions, which computeSalary provides a fallback for.
ContextInputs ==
    {"built", "country", "year", "class", "no_class", "no_calc_mode",
     "mode_country", "mode_year", "mode_class", "mode_year_number", "no_social"}

With(h, v, key, val) ==
    LET copy == Alloc(h, [k \in DOMAIN h[v[2]] \cup {key} |->
                             IF k = key THEN val ELSE h[v[2]][k]])
    IN [h |-> copy.h, v |-> Ref(copy.id)]

ContextInput(h, ctx, variant) ==
    LET mode(key, val) == With(h, Get(h, ctx, "calcMode"), key, val)
        withMode(key, val) == With(mode(key, val).h, ctx, "calcMode", mode(key, val).v)
    IN CASE variant = "country" -> With(h, ctx, "countryCode", Str("XX"))
         [] variant = "year" -> With(h, ctx, "year", Str("2027"))
         [] variant = "class" -> With(h, ctx, "taxClass", Str("VI"))
         [] variant = "no_class" -> With(h, ctx, "taxClass", Null)
         [] variant = "no_calc_mode" -> With(h, ctx, "calcMode", Undef)
         [] variant = "mode_country" -> withMode("countryCode", Str("XX"))
         [] variant = "mode_year" -> withMode("year", Str("2027"))
         [] variant = "mode_class" -> withMode("taxClass", Str("VI"))
         [] variant = "mode_year_number" -> withMode("year", Num(2026))
         [] variant = "no_social" -> With(h, ctx, "socialContributions", Undef)
         [] OTHER -> [h |-> h, v |-> ctx]

NoResult == [none |-> TRUE]

\* The options of a computeSalary call.
SalaryOptions(input, taxContext) ==
    [taxContext |-> taxContext, salaryAmount |-> input.salaryAmount,
     salaryPeriod |-> input.salaryPeriod, salaryMonths |-> input.salaryMonths,
     benefitsAnnual |-> input.benefitsAnnual]

\* computeSalary returns r.result or throws r.err.
Computed(variant, options, before, r) ==
    /\ heap' = r.h
    /\ salary' = [called |-> TRUE, variant |-> variant, options |-> options,
                  before |-> before, after |-> r.h, ok |-> r.ok, err |-> r.err,
                  result |-> IF r.ok THEN r.result ELSE NoResult]

\* computeSalary with the context given.v, held by the heap given.h.
ComputeWith(input, variant, given) ==
    Computed(variant, SalaryOptions(input, given.v), given.h,
             computeSalary(given.h, Registry, SalaryOptions(input, given.v)))

\* computeSalary(options)
ComputeSalary(input, variant) ==
    /\ computes < MaxComputes
    /\ variant = "built" \/ (IsRef(lastContext) /\ input = PlainInput)
    /\ ComputeWith(input, variant, ContextInput(heap, lastContext, variant))
    /\ computes' = computes + 1
    /\ UNCHANGED <<loaderVars, lastContext, built, combined, mergeVars, partVars, registryVars>>

NextEngine ==
    \/ \E code \in {"DE", "ES", "AT", "NL", "SE", "FR"},
          o \in UNION {OptionInputs(c) : c \in {"DE", "ES", "AT"}} :
           BuildTaxContext(code, o)
    \/ \E input \in SalaryInputs, variant \in ContextInputs : ComputeSalary(input, variant)

SpecEngine == InitEngine /\ [][NextEngine]_vars

(***************************************************************************)
(* computeSalaryWithContext beside the two calls it combines.              *)
(***************************************************************************)
\* The options buildTaxContext gets from computeSalaryWithContext:
\* countryCode, year, region and taxClass, no childrenCount.
LoaderOptions(o) ==
    [year |-> o.year, taxClass |-> o.taxClass, region |-> o.region, childrenCount |-> Undef]

\* A faulty hand-over: childrenCount is not put on the context.
WithChildrenCountUnset(h, taxContext, childrenCount) == h

\* taxContext.childrenCount = options.childrenCount != null ?
\* Number(options.childrenCount) : 0
WithChildrenCount(h, taxContext, childrenCount) ==
    SetField(h, taxContext[2], "childrenCount",
             IF IsNullish(childrenCount) THEN Num(0) ELSE <<"num", Number(childrenCount)>>)

\* computeSalary on the context buildTaxContext returned to
\* computeSalaryWithContext, or the error buildTaxContext threw.
ComputeOnBuilt(input, o, r) ==
    IF ~r.ok THEN [h |-> r.h, ok |-> FALSE, err |-> r.err]
    ELSE computeSalary(WithChildrenCount(r.h, r.ctx, o.childrenCount), Registry,
                       SalaryOptions(input, r.ctx))

\* What computeSalaryWithContext left: its result or the error it threw.
Combined(code, o, input, r) ==
    /\ heap' = r.h
    /\ combined' = [called |-> TRUE, code |-> code, o |-> o, input |-> input,
                    before |-> heap, after |-> r.h, ok |-> r.ok, err |-> r.err,
                    result |-> IF r.ok THEN r.result ELSE NoResult]

\* computeSalaryWithContext(options) for a country whose document is cached.
ComputeSalaryWithContext(code, o, input) ==
    /\ ~combined.called
    /\ code \in DOMAIN rulesCache
    /\ o \in OptionInputs(code)
    /\ Combined(code, o, input,
                ComputeOnBuilt(input, o,
                    BuildContext(heap, code, rulesCache[code], LoaderOptions(o),
                                 DEBUG_STRICT)))
    /\ UNCHANGED <<loaderVars, lastContext, built, salary, computes, mergeVars, partVars, registryVars>>

\* The salaries the two ways are compared on.
RoundTripInputs ==
    {PlainInput,
     SalaryInput(Num(3000), "monthly", Num(14), Undef),
     SalaryInput(Undef, "monthly", Undef, Undef)}

NextRoundTrip ==
    \/ \E code \in {"DE", "ES", "AT", "NL", "SE", "FR"},
          o \in UNION {OptionInputs(c) : c \in {"DE", "ES", "AT"}} :
           BuildTaxContext(code, o)
    \/ \E input \in RoundTripInputs : ComputeSalary(input, "built")
    \/ \E code \in {"DE", "ES", "AT", "NL", "SE", "FR"},
          o \in UNION {OptionInputs(c) : c \in {"DE", "ES", "AT"}},
          input \in RoundTripInputs :
           ComputeSalaryWithContext(code, o, input)

SpecRoundTrip == InitEngine /\ [][NextRoundTrip]_vars

(***************************************************************************)
(* Properties of deepMerge.                                                *)
(***************************************************************************)
\* The indices of the objects reachable from a value.
RECURSIVE Reach(_, _)
Reach(h, v) ==
    IF v[1] = "ref"
    THEN {v[2]} \cup UNION {Reach(h, h[v[2]][k]) : k \in DOMAIN h[v[2]]}
    ELSE {}

\* C6: deepMerge(base, override) never modifies base or any object nested
\* inside base: after the call every object reachable from base has exactly
\* the keys and the values it had before the call.
C6_DeepMergeKeepsBase ==
    mergeOut # NoValue =>
        \A i \in Reach(mergeIn.heap, mergeIn.base) : heap[i] = mergeIn.heap[i]

\* A call that merged a nested object of base with one of override.
C6_Witness ==
    /\ mergeOut # NoValue
    /\ mergeOut[1] = "ref" /\ mergeOut[2] > Len(mergeIn.heap)
    /\ Get(mergeIn.heap, mergeIn.base, "a")[1] = "ref"
    /\ Get(mergeIn.heap, mergeIn.override, "a")[1] = "ref"
    /\ Get(mergeIn.heap, Get(mergeIn.heap, mergeIn.override, "a"), "b")[1] = "num"
    /\ Len(heap) >= Len(mergeIn.heap) + 2

\* Value r (in heap h1) is the merge of b and o (in heap h0) as the
\* specification words it.
RECURSIVE MergedAs(_, _, _, _, _)
MergedAs(h0, b, o, h1, r) ==
    LET absent(v) == v[1] \in {"undef", "null"}
        object(v) == v[1] = "ref"
    IN IF absent(o) THEN r = b
       ELSE IF absent(b) THEN r = o
       ELSE /\ object(r)
            /\ DOMAIN h1[r[2]] = DOMAIN h0[b[2]] \cup DOMAIN h0[o[2]]
            /\ \A k \in DOMAIN h0[b[2]] \ DOMAIN h0[o[2]] :
                   h1[r[2]][k] = h0[b[2]][k]
            /\ \A k \in DOMAIN h0[o[2]] :
                   IF k \in DOMAIN h0[b[2]] /\ object(h0[b[2]][k]) /\ object(h0[o[2]][k])
                   THEN MergedAs(h0, h0[b[2]][k], h0[o[2]][k], h1, h1[r[2]][k])
                   ELSE h1[r[2]][k] = h0[o[2]][k]

\* C7: the value deepMerge returns keeps base's value under every key only
\* base has; under a key of override it holds the recursive merge when both
\* sides are non-array objects and the override's value otherwise (arrays and
\* primitives replace, never combine); an absent override returns base.
C7_DeepMergeResult ==
    mergeOut # NoValue =>
        MergedAs(mergeIn.heap, mergeIn.base, mergeIn.override, heap, mergeOut)

\* A call where a key only base has, a replaced array and a nested merge
\* all occur.
C7_Witness ==
    /\ mergeOut # NoValue
    /\ Get(mergeIn.heap, mergeIn.base, "a")[1] = "ref"
    /\ Get(mergeIn.heap, mergeIn.override, "a")[1] = "ref"
    /\ Get(mergeIn.heap, mergeIn.base, "b")[1] = "num"
    /\ Get(mergeIn.heap, mergeIn.override, "b")[1] = "undef"
    /\ Get(mergeIn.heap, Get(mergeIn.heap, mergeIn.base, "a"), "a")[1] = "arr"
    /\ Get(mergeIn.heap, Get(mergeIn.heap, mergeIn.override, "a"), "a")[1] = "arr"
    /\ Get(mergeIn.heap, Get(mergeIn.heap, mergeIn.base, "a"), "b")[1] = "num"
    /\ Get(mergeIn.heap, Get(mergeIn.heap, mergeIn.override, "a"), "b")[1] = "undef"
    /\ Get(heap, Get(heap, mergeOut, "a"), "a") = Arr(<<Num(2)>>)
    /\ Get(heap, Get(heap, mergeOut, "a"), "b") = Num(1)

(***************************************************************************)
(* Properties of the loader.                                               *)
(***************************************************************************)
\* C1: no sequence of buildTaxContext calls changes any field of a cached
\* rule document: every object of every cached document is as it was
\* parsed, whatever classes were applied (a class with a
\* taxable_income_adjustment, or a merged formula without parameters).
C1_CachedDocumentNeverChanges ==
    \A c \in DOMAIN rulesCache :
        \A i \in Reach(pristine, rulesCache[c]) : heap[i] = pristine[i]

\* C2: whatever the interleaving of loadCountryRules calls, the cache
\* entry of a country code is written at most once: an entry that exists
\* is never replaced by a load that completes later.
C2_CacheEntryWrittenOnce ==
    [][\A c \in DOMAIN rulesCache :
          c \in DOMAIN rulesCache' /\ rulesCache'[c] = rulesCache[c]]_vars

\* C3: once loadCountryRules has succeeded for a country code, every call
\* made later for that code, in any letter case, fetches nothing and gets
\* the very document the successful load returned.
C3_LaterCallsGetTheLoadedDocument ==
    \A k \in Slots :
        calls[k].late =>
            /\ ~calls[k].fetched
            /\ calls[k].doc = firstLoaded[calls[k].code]

(***************************************************************************)
(* Properties of computeSalary's checks of the context.                    *)
(***************************************************************************)
\* C4: computeSalary throws and returns no result whenever the context it
\* is given has no calcMode, or a calcMode whose countryCode, year or
\* taxClass differs from the context's own (years and classes compared as
\* the texts they print as, no class being the empty text); neither the
\* context nor its calcMode is changed by the call.
C4_MismatchedCalcModeIsFatal ==
    (salary.called /\ IsRef(salary.options.taxContext)) =>
        LET h == salary.before
            ctx == salary.options.taxContext
            mode == Get(h, ctx, "calcMode")
            classText(o) == IF Truthy(Get(h, o, "taxClass"))
                            THEN String(Get(h, o, "taxClass")) ELSE ""
            differs ==
                \/ ~IsRef(mode)
                \/ Get(h, mode, "countryCode") # Get(h, ctx, "countryCode")
                \/ String(Get(h, mode, "year")) # String(Get(h, ctx, "year"))
                \/ classText(mode) # classText(ctx)
        IN differs =>
               /\ ~salary.ok
               /\ salary.result = NoResult
               /\ salary.err.cause \in {"missing_calc_mode", "calc_mode_mismatch",
                                        "missing_tax_class_required"}
               /\ salary.after[ctx[2]] = h[ctx[2]]
               /\ IsRef(mode) => salary.after[mode[2]] = h[mode[2]]

\* A context whose calcMode names another year was passed and rejected.
C4_Witness ==
    /\ salary.called
    /\ salary.variant = "mode_year"
    /\ ~salary.ok
    /\ salary.err = EngineError("app.error.generic", "calc_mode_mismatch")
    /\ Get(salary.before, Get(salary.before, salary.options.taxContext, "calcMode"), "year")
           = Str("2027")
    /\ Get(salary.before, salary.options.taxContext, "year") = Str("2026")

\* C5: for DE, when the rules of the requested year have a tax_classes map,
\* buildTaxContext fails with error.invalidTaxClass if no class is supplied
\* and if the supplied class (upper-cased and trimmed) is not a key of the
\* map, and returns a context only for a class that is a key; computeSalary
\* rejects, with error.invalidTaxClass, a DE context whose year rules have
\* the map and which names no class.
C5_TaxClassIsRequiredAndKnown ==
    /\ (built.called /\ built.code = "DE") =>
           LET h == built.before
               years == Get(h, rulesCache["DE"], "years")
               yearRules == Get(h, years, String(built.o.year))
               classes == Get(h, yearRules, "tax_classes")
               supplied == Truthy(built.o.taxClass)
               class == IF supplied THEN trim(toUpperCase(String(built.o.taxClass)))
                        ELSE ""
           IN (IsRef(yearRules) /\ IsRef(classes)) =>
                  /\ class = "" =>
                         /\ ~built.ok
                         /\ built.err.i18nKey = "error.invalidTaxClass"
                  /\ class \notin KeysOf(h, classes) =>
                         /\ ~built.ok
                         /\ built.err.i18nKey = "error.invalidTaxClass"
                  /\ built.ok => (supplied /\ class \in KeysOf(h, classes))
    /\ (salary.called /\ IsRef(salary.options.taxContext)) =>
           LET h == salary.before
               ctx == salary.options.taxContext
               yearRules == Get(h, ctx, "yearRules")
           IN (/\ Get(h, ctx, "countryCode") = Str("DE")
               /\ IsRef(yearRules)
               /\ IsRef(Get(h, yearRules, "tax_classes"))
               /\ ~Truthy(Get(h, ctx, "taxClass"))) =>
                  /\ ~salary.ok
                  /\ salary.result = NoResult
                  /\ salary.err.i18nKey = "error.invalidTaxClass"

\* A build without a class failed, and a German context stripped of its
\* class was rejected by computeSalary.
C5_Witness ==
    /\ built.called /\ built.code = "DE"
    /\ ~Truthy(built.o.taxClass)
    /\ ~built.ok /\ built.err.i18nKey = "error.invalidTaxClass"
    /\ salary.called /\ salary.variant = "no_class"
    /\ Get(salary.before, salary.options.taxContext, "countryCode") = Str("DE")
    /\ ~salary.ok /\ salary.err.i18nKey = "error.invalidTaxClass"

(***************************************************************************)
(* Properties of the contribution base.                                    *)
(***************************************************************************)
\* C8: for every applying scheme (with 0 <= floor <= ceiling where they are
\* given) and every gross amount, the base the rate is applied to is at
\* least the floor (0 without one), at most the ceiling (unlimited without
\* one) and never negative, and the flat employee amount is that base times
\* the rate; floor 0, ceiling 50,000, rate 0.1 and gross 80,000 give an
\* employee amount of exactly 5,000.
C8_BaseWithinFloorAndCeiling ==
    contribOut.called =>
        LET out == contribOut.out
            rules == contribIn.socialContribRules
            entry(id) == IF id = "other_0" THEN Get(heap, rules, "other")[2][1]
                         ELSE Get(heap, rules, id)
            limit(id, key) == Get(heap, entry(id), key)
        IN /\ DOMAIN out.baseById = {"pension", "other_0"}
           /\ \A id \in DOMAIN out.baseById :
                  Truthy(Get(heap, entry(id), "applies")) =>
                      /\ QLe(Zero, out.baseById[id])
                      /\ IF IsNum(limit(id, "floor"))
                         THEN QLe(limit(id, "floor")[2], out.baseById[id])
                         ELSE QLe(Zero, out.baseById[id])
                      /\ IsNum(limit(id, "ceiling")) =>
                             QLe(out.baseById[id], limit(id, "ceiling")[2])
                      /\ ~IsNum(limit(id, "ceiling")) =>
                             QLe(contribIn.grossAnnual, out.baseById[id])
           /\ Truthy(limit("pension", "applies")) =>
                  out.employeeById["pension"]
                      = QMul(out.baseById["pension"], limit("pension", "employee_rate")[2])
           /\ (/\ heap[2] = Scheme(TRUE, Dec(1, 10), Num(0), Num(50000))
               /\ contribIn.grossAnnual = Q(80000, 1)) =>
                  out.employeeById["pension"] = Q(5000, 1)

\* The example: the base of 80,000 was cut at the ceiling of 50,000.
C8_Witness ==
    /\ contribOut.called
    /\ heap[2] = Scheme(TRUE, Dec(1, 10), Num(0), Num(50000))
    /\ contribIn.grossAnnual = Q(80000, 1)
    /\ contribOut.out.baseById["pension"] = Q(50000, 1)
    /\ contribOut.out.employeeById["pension"] = Q(5000, 1)

(***************************************************************************)
(* Properties of the progressive tax.                                      *)
(***************************************************************************)
\* The part of [0, taxable] in the span of the i-th bracket of a schedule
\* with ascending limits, times the bracket's rate.
TaxInSpan(brackets, i, taxable) ==
    LET limit(j) == brackets[j][2]["up_to"]
        lower == IF i = 1 THEN Zero ELSE limit(i - 1)[2]
        top == IF IsNum(limit(i)) THEN QMin(taxable, limit(i)[2]) ELSE taxable
    IN QMul(brackets[i][2]["rate"][2], QMax(Zero, QSub(top, lower)))

\* The largest rate of a schedule.
TopRate(brackets) ==
    LET rates == {brackets[i][2]["rate"][2] : i \in 1..Len(brackets)}
    IN CHOOSE r \in rates : \A q \in rates : QLe(q, r)

\* C9: for a progressive rule with non-negative rates the tax is the sum
\* over the brackets of rate times the part of [0, taxable] in the bracket's
\* span, rounded once; it does not decrease when the taxable income grows,
\* and it grows by no more than the top rate times the growth of the income
\* (plus the rounding), so there is no jump at a bracket limit.
C9_ProgressiveTaxIsBracketSum ==
    LET brackets == heap[1]["brackets"][2]
        unit == Q(1, Pow10(taxIn.currencyDecimals[2][1]))
        run(i) == taxRuns[i]
    IN /\ \A i \in 1..Len(taxRuns) :
              /\ run(i).out.ok
              /\ run(i).out.amount =
                     roundCurrency(
                         QSum([b \in 1..Len(brackets) |->
                                  TaxInSpan(brackets, b, QMax(Zero, run(i).taxableAnnual))]),
                         taxIn.currencyDecimals, taxIn.roundingMode)
       /\ \A i, j \in 1..Len(taxRuns) :
              QLe(run(i).taxableAnnual, run(j).taxableAnnual) =>
                  /\ QLe(run(i).out.amount, run(j).out.amount)
                  /\ QLe(QSub(run(j).out.amount, run(i).out.amount),
                         QAdd(QMul(TopRate(brackets),
                                   QSub(run(j).taxableAnnual, run(i).taxableAnnual)),
                              unit))

\* The tax at a bracket limit and the tax two brackets above it.
C9_Witness ==
    /\ Len(taxRuns) = 2
    /\ Len(heap[1]["brackets"][2]) = 3
    /\ taxRuns[1].taxableAnnual = Q(12450, 1)
    /\ taxRuns[2].taxableAnnual = Q(2020001, 100)
    /\ QLt(Zero, taxRuns[1].out.amount)
    /\ QLt(taxRuns[1].out.amount, taxRuns[2].out.amount)

(***************************************************************************)
(* Properties of the reported amounts.                                     *)
(***************************************************************************)
\* |x - y| <= tolerance
Within(x, y, tolerance) == QLe(QSub(x, y), tolerance) /\ QLe(QSub(y, x), tolerance)

\* net and TCO put together again from the reported annual amounts.
RecomposedNet(a) ==
    QSub(QSub(QSub(a.gross, a.employeeContribTotal), a.incomeTaxTotal),
         a.employeeOtherTaxesTotal)

RecomposedTco(a) ==
    QAdd(QAdd(a.gross, a.employerContribTotal), a.employerOtherTaxesTotal)

\* C10, as stated: in every result annual.net and annual.tco are within 0.01
\* of gross - employeeContribTotal - incomeTaxTotal - employeeOtherTaxesTotal
\* and of gross + employerContribTotal + employerOtherTaxesTotal, taken from
\* the reported amounts.
C10_RecomposesWithinOneCent ==
    (salary.called /\ salary.ok) =>
        /\ Within(salary.result.annual.net, RecomposedNet(salary.result.annual), Q(1, 100))
        /\ Within(salary.result.annual.tco, RecomposedTco(salary.result.annual), Q(1, 100))

\* C10, amended: in every result annual.net and annual.tco are within one
\* unit of the result's currency precision (1 / 10^currencyDecimals, which
\* is 0.01 at the default of two decimals) of the amounts recomposed from
\* the reported values; other taxes with employer incidence are no part of
\* the recomposed net and those with employee incidence no part of the
\* recomposed TCO.
C10_RecomposesWithinOneUnit ==
    (salary.called /\ salary.ok) =>
        LET a == salary.result.annual
            unit == Q(1, Pow10(salary.result.meta.currencyDecimals[2][1]))
        IN /\ Within(a.net, RecomposedNet(a), unit)
           /\ Within(a.tco, RecomposedTco(a), unit)

\* A result with contributions, income tax after credits, an other tax the
\* employee bears and one the employer bears.
C10_Witness ==
    /\ salary.called /\ salary.ok
    /\ QLt(Zero, salary.result.annual.employeeContribTotal)
    /\ QLt(Zero, salary.result.annual.employerContribTotal)
    /\ QLt(Zero, salary.result.annual.incomeTaxTotal)
    /\ QLt(Zero, salary.result.incomeTax.credits.total)
    /\ QLt(Zero, salary.result.annual.employeeOtherTaxesTotal)
    /\ QLt(Zero, salary.result.annual.employerOtherTaxesTotal)

(***************************************************************************)
(* Properties of the Austrian special payments.                            *)
(***************************************************************************)
\* The tax a progressive rule (a heap object with brackets) puts on a
\* taxable income, as the sum over the brackets, rounded once.
BracketSumTax(h, rules, taxable, decimals, mode) ==
    LET brackets == Get(h, rules, "brackets")[2]
    IN roundCurrency(QSum([b \in 1..Len(brackets) |-> TaxInSpan(brackets, b, taxable)]),
                     decimals, mode)

\* A result of the Austrian special-payment path.
SplitResult == salary.called /\ salary.ok /\ salary.result.at.split

\* C11: in the special-payment path the base taxed by the preferential
\* rules is at most one sixth of the regular annual gross; the cap base and
\* the overflow add up to the special taxable base, and the regular tax is
\* the tax of the main rules on the regular taxable base plus the whole
\* overflow.
C11_PreferentialWithinSixth ==
    SplitResult =>
        LET r == salary.result
            at == r.at
            sixth == QDiv(at.regularGrossAnnual, Q(6, 1))
        IN /\ at.sixth = sixth
           /\ QLe(at.capBase, sixth)
           /\ QLe(at.taxablePreferential, at.capBase)
           /\ QLe(Zero, at.overflowToRegular)
           /\ QAdd(at.capBase, at.overflowToRegular) = at.taxableBase
           /\ QLt(sixth, at.taxableBase) =>
                  at.overflowToRegular = QSub(at.taxableBase, sixth)
           /\ r.incomeTax.main =
                  BracketSumTax(salary.after,
                      Get(salary.after, salary.options.taxContext, "incomeTax"),
                      QAdd(at.regularTaxableBase, at.overflowToRegular),
                      r.meta.currencyDecimals, r.meta.roundingMode)

\* Sixteen salaries a year: the special taxable base is above the sixth,
\* and the part above it is taxed by the main rules.
C11_Witness ==
    /\ SplitResult
    /\ QLt(salary.result.at.sixth, salary.result.at.taxableBase)
    /\ salary.result.at.capBase = salary.result.at.sixth
    /\ QLt(Zero, salary.result.at.overflowToRegular)
    /\ QLt(Zero, salary.result.at.taxablePreferential)
    /\ QLt(Zero, salary.result.incomeTax.main)

\* The months a salary is paid in, by the special-payment rules sp of a
\* context: the months the caller names, else the default of the rules.
PaidMonths(h, sp, options) ==
    IF IsNum(options.salaryMonths) THEN Number(options.salaryMonths)
    ELSE Number(Get(h, sp, "default_salary_months"))

\* C12: with special payments enabled and more months paid (N) than the
\* regular months (R), monthly input m gives regularAnnual = m * R and
\* specialAnnual = m * (N - R), yearly input a gives regularAnnual =
\* (a / N) * R and specialAnnual = a - regularAnnual, and in both cases the
\* two add up to the annual gross of the result; R = 12, m = 3,000 and
\* N = 14 give 36,000, 6,000 and a sixth of 6,000.
C12_RegularAndSpecialPortions ==
    (salary.called /\ salary.ok) =>
        LET h == salary.before
            o == salary.options
            ctx == o.taxContext
            sp == Get(h, Get(h, ctx, "yearRules"), "special_payments")
            R == Number(Get(h, sp, "regular_months"))
            N == PaidMonths(h, sp, o)
            amount == Number(o.salaryAmount)
            at == salary.result.at
        IN (/\ Get(h, ctx, "countryCode") = Str("AT")
            /\ Truthy(sp) /\ Truthy(Get(h, sp, "enabled"))
            /\ QLt(R, N)) =>
               /\ at.split
               /\ o.salaryPeriod = Str("monthly") =>
                      /\ at.regularGrossAnnual = QMul(amount, R)
                      /\ at.specialGrossAnnual = QMul(amount, QSub(N, R))
               /\ o.salaryPeriod = Str("yearly") =>
                      /\ at.regularGrossAnnual = QMul(QDiv(amount, N), R)
                      /\ at.specialGrossAnnual = QSub(amount, at.regularGrossAnnual)
               /\ salary.result.annual.gross
                      = QAdd(at.regularGrossAnnual, at.specialGrossAnnual)
               /\ (o.salaryPeriod = Str("monthly") /\ amount = Q(3000, 1)
                       /\ R = Q(12, 1) /\ N = Q(14, 1)) =>
                      /\ at.regularGrossAnnual = Q(36000, 1)
                      /\ at.specialGrossAnnual = Q(6000, 1)
                      /\ at.sixth = Q(6000, 1)

\* The example: 3,000 a month, paid fourteen times.
C12_Witness ==
    /\ SplitResult
    /\ salary.options.salaryPeriod = Str("monthly")
    /\ salary.options.salaryAmount = Num(3000)
    /\ salary.result.at.regularGrossAnnual = Q(36000, 1)
    /\ salary.result.at.specialGrossAnnual = Q(6000, 1)
    /\ salary.result.at.sixth = Q(6000, 1)
    /\ salary.result.annual.gross = Q(42000, 1)

(***************************************************************************)
(* Properties of the Austrian low-income tiers.                            *)
(***************************************************************************)
\* The employee rate of a tiered scheme for a monthly base: the rate of the
\* first tier whose upper bound is not below the base, else the standard
\* rate.
RateOfFirstTier(h, entry, monthlyBase) ==
    LET tiers == Get(h, entry, "low_income_employee_rate_tiers")[2]
        fits == {i \in 1..Len(tiers) : QLe(monthlyBase, Get(h, tiers[i], "up_to")[2])}
        first == CHOOSE i \in fits : \A j \in fits : i <= j
    IN IF fits = {} THEN Get(h, entry, "employee_rate")[2]
       ELSE Get(h, tiers[first], "employee_rate")[2]

\* A base cut at the ceiling of its scheme and at the ceiling of its
\* portion, where these are given.
CutAt(h, base, entry, cap) ==
    LET ceiling == Get(h, entry, "ceiling")
        cut == IF IsNum(ceiling) THEN QMin(base, ceiling[2]) ELSE base
    IN IF IsNum(cap) THEN QMin(cut, cap[2]) ELSE cut

\* The annual gross of the options of a call.
GrossOf(options) ==
    IF options.salaryPeriod = Str("monthly")
    THEN QMul(Number(options.salaryAmount), Q(12, 1))
    ELSE Number(options.salaryAmount)

\* C13: for AT, the employee amount of a scheme with low-income tiers is,
\* on the regular portion (the whole gross where there is no special
\* portion), the base times the rate of the first tier whose upper bound is
\* not below a twelfth of the portion before any ceiling (2,225.00 is in
\* the first tier, 2,225.01 in the second), the standard rate above all
\* tiers; on the special portion it is the base times the standard rate.
\* The context is one whose socialContributions the loader populated.
C13_TiersOnRegularPortionOnly ==
    (/\ salary.called /\ salary.ok
     /\ Get(salary.before, salary.options.taxContext, "countryCode") = Str("AT")
     /\ IsRef(Get(salary.before, salary.options.taxContext, "socialContributions"))) =>
        LET h == salary.before
            ctx == salary.options.taxContext
            r == salary.result
            sc == Get(h, ctx, "socialContributions")
            caps == Get(h, Get(h, Get(h, ctx, "yearRules"), "special_payments"),
                        "social_contributions")
            regular == IF r.at.split THEN r.at.regularGrossAnnual ELSE GrossOf(salary.options)
            tiered == {id \in KeysOf(h, sc) \ {"other"} :
                          IsArr(Get(h, Get(h, sc, id), "low_income_employee_rate_tiers"))}
            rate(id) == RateOfFirstTier(h, Get(h, sc, id), QDiv(regular, Q(12, 1)))
            standard(id) == Get(h, Get(h, sc, id), "employee_rate")[2]
            expected(id) ==
                IF r.at.split
                THEN QAdd(QMul(rate(id), CutAt(h, regular, Get(h, sc, id),
                                               Get(h, caps, "regular_ceiling_annual"))),
                          QMul(standard(id),
                               CutAt(h, r.at.specialGrossAnnual, Get(h, sc, id),
                                     Get(h, caps, "special_ceiling_annual"))))
                ELSE QMul(rate(id), CutAt(h, regular, Get(h, sc, id), Undef))
        IN /\ tiered # {}
           /\ \A id \in tiered :
                  r.annual.employeeContribById[id]
                      = roundCurrency(expected(id), r.meta.currencyDecimals,
                                      r.meta.roundingMode)

\* 2,225.00 a month, paid fourteen times: nothing on the regular portion,
\* the standard 3% on the special portion of 4,450.
C13_Witness ==
    /\ SplitResult
    /\ salary.options.salaryAmount = Num(2225)
    /\ salary.result.at.specialGrossAnnual = Q(4450, 1)
    /\ salary.result.annual.employeeContribById["unemployment"] = Q(1335, 10)

(***************************************************************************)
(* Properties of formula rules.                                            *)
(***************************************************************************)
\* The formula object of the rule a run was made on.
RunFormula == Get(heap, taxIn.taxRules, "formula")

\* The runs of computeTaxByRules on a rule of type formula.
FormulaRuns ==
    IF Get(heap, taxIn.taxRules, "type") = Str("formula") THEN DOMAIN taxRuns ELSE {}

\* The formula is not configured: use_formula is not true, or no method.
NotConfigured ==
    \/ Get(heap, RunFormula, "use_formula") # Bool(TRUE)
    \/ Get(heap, RunFormula, "method") \in {Undef, NoValue, Null, Str("")}

\* The method the rule names is not in the registry.
NotRegistered ==
    /\ ~NotConfigured
    /\ Get(heap, RunFormula, "method")[2] \notin DOMAIN taxIn.registry.fns

\* C14 (as the specification states it): a formula rule whose method is
\* absent, whose use_formula is not true, or whose method is not registered
\* makes computeTaxByRules fail; no tax amount is returned.
C14_UnconfiguredFormulaFails ==
    \A i \in FormulaRuns : (NotConfigured \/ NotRegistered) => ~taxRuns[i].out.ok

\* The method of a run whose formula is configured and registered.
RunMethod == Get(heap, RunFormula, "method")[2]

\* The runs that reached the call of the registered implementation.
ImplementationCalls ==
    IF ~NotConfigured /\ ~NotRegistered /\ taxIn.registry.loaded THEN FormulaRuns ELSE {}

\* The run failed with the given cause.
RunFailedWith(run, cause) ==
    /\ ~run.out.ok
    /\ run.out.err = EngineError("app.error.generic", cause)

\* The run returned the amount nearest to x among the multiples of a cent.
RunReturnedRounded(run, x) ==
    /\ run.out.ok
    /\ QMul(run.out.amount, Q(100, 1))[2] = 1
    /\ QLe(QSub(x, Q(1, 200)), run.out.amount)
    /\ QLe(run.out.amount, QAdd(x, Q(1, 200)))

\* C15: an implementation that throws makes the run fail with
\* formula_execution_error; one that returns NaN, Infinity, nothing or a
\* negative number makes it fail with formula_invalid_result; a finite
\* non-negative return value is the tax amount, rounded to cents.
C15_FormulaResultChecked ==
    \A i \in ImplementationCalls :
        CASE RunMethod = "throws" -> RunFailedWith(taxRuns[i], "formula_execution_error")
          [] RunMethod \in {"returns_nan", "returns_infinity", "returns_nothing",
                            "returns_negative"} ->
                 RunFailedWith(taxRuns[i], "formula_invalid_result")
          [] RunMethod = "returns_thirds" ->
                 RunReturnedRounded(taxRuns[i], QDiv(taxRuns[i].taxableAnnual, Q(3, 1)))
          [] OTHER -> taxRuns[i].out.ok /\ QLe(Zero, taxRuns[i].out.amount)

\* A negative return value was refused.
C15_Witness ==
    /\ 1 \in ImplementationCalls
    /\ RunMethod = "returns_negative"
    /\ taxRuns[1].taxableAnnual = Q(10000, 1)
    /\ RunFailedWith(taxRuns[1], "formula_invalid_result")

\* The tariff block among the parameters of the formula of a run.
RunTariff == Get(heap, Get(heap, RunFormula, "parameters"), "tariff")

\* C16 (as the specification states it): the zoned tariff method called
\* without its tariff block makes the computation fail; the tax is never
\* returned as an amount.
C16_MissingTariffFails ==
    \A i \in ImplementationCalls :
        (RunMethod = "de_estg_2026" /\ ~IsObject(RunTariff)) => ~taxRuns[i].out.ok

(***************************************************************************)
(* Properties of rounding.                                                 *)
(***************************************************************************)
\* amount is x rounded to cents in the given mode.
RoundedInMode(amount, x, mode) ==
    /\ QMul(amount, Q(100, 1))[2] = 1
    /\ CASE mode = Str("up") -> QLe(x, amount) /\ QLt(amount, QAdd(x, Q(1, 100)))
         [] mode = Str("down") -> QLe(amount, x) /\ QLt(QSub(x, Q(1, 100)), amount)
         [] OTHER -> QLe(QSub(x, Q(1, 200)), amount) /\ QLe(amount, QAdd(x, Q(1, 200)))

\* C17 (as the specification states it): with rounding mode 'up' the
\* finalized tax amount is the raw amount rounded up to the currency
\* decimals, with 'down' rounded down, with 'nearest_cent' rounded to the
\* nearest.
C17_RoundedInTheModeOfTheFlags ==
    \A i \in ImplementationCalls :
        RunMethod = "returns_thirds" =>
            /\ taxRuns[i].out.ok
            /\ RoundedInMode(taxRuns[i].out.amount,
                             QDiv(taxRuns[i].taxableAnnual, Q(3, 1)), taxIn.roundingMode)

(***************************************************************************)
(* Properties of computeSalaryWithContext.                                 *)
(***************************************************************************)
\* A result without the reference to its context.
Amounts_(result) == [k \in DOMAIN result \ {"taxContext"} |-> result[k]]

\* Call b was made on the objects call a left, no other call in between.
Follows(a, b) == b.before = a.after

\* The last buildTaxContext call had the country and the options of the
\* computeSalaryWithContext call, and one followed the other.
SameBuild ==
    /\ combined.called /\ built.called
    /\ built.code = combined.code
    /\ built.o = combined.o
    /\ Follows(built, combined) \/ Follows(combined, built)

\* buildTaxContext, computeSalary with the context it returned and
\* computeSalaryWithContext with the same country, options and salary
\* were called one after the other, the combined call first, second or last.
SameCompute ==
    /\ combined.called /\ built.called /\ built.ok /\ salary.called
    /\ built.code = combined.code
    /\ built.o = combined.o
    /\ salary.options = SalaryOptions(combined.input, built.ctx)
    /\ \/ Follows(combined, built) /\ Follows(built, salary)
       \/ Follows(built, combined) /\ Follows(combined, salary)
       \/ Follows(built, salary) /\ Follows(salary, combined)

\* C18: computeSalaryWithContext fails with the error buildTaxContext
\* throws for the same country and options; otherwise it returns what
\* computeSalary returns for the context buildTaxContext returned and the
\* same salary, or fails with the same error.
C18_RoundTrip ==
    /\ (SameBuild /\ ~built.ok) => (~combined.ok /\ combined.err = built.err)
    /\ SameCompute =>
           /\ combined.ok = salary.ok
           /\ combined.err = salary.err
           /\ salary.ok =>
                  /\ Amounts_(combined.result) = Amounts_(salary.result)
                  /\ SameJson(heap, combined.result.taxContext, salary.result.taxContext)

\* Class II with two children in Germany, computed both ways.
C18_Witness ==
    /\ SameCompute
    /\ combined.code = "DE"
    /\ combined.o.taxClass = Str("ii")
    /\ combined.o.childrenCount = Num(2)
    /\ combined.input = PlainInput
    /\ combined.ok /\ salary.ok

(***************************************************************************)
(* Properties of the errors of loadCountryRules.                           *)
(***************************************************************************)
\* The invocations that failed in loadCountryRules itself.
FailedLoads ==
    {k \in Slots :
        /\ calls[k].pc = "failed"
        /\ \/ calls[k].response \in {"rejected", "not_ok"}
           \/ calls[k].body \in {"invalid_json", "scalar", "no_years"}
           \/ calls[k].code \notin DOMAIN COUNTRY_FILE_MAP}

\* The cause in the details of the error of a failed load, except for a
\* response that is not ok.
CauseAsStated(k) ==
    /\ calls[k].err.i18nKey = "error.noCountryRules"
    /\ calls[k].response = "rejected" => calls[k].err.cause = "network"
    /\ calls[k].body = "invalid_json" => calls[k].err.cause = "invalid_json"
    /\ calls[k].body \in {"scalar", "no_years"} => calls[k].err.cause = "missing_years"

\* An empty or unmapped country code fails, and nothing was fetched.
FailsBeforeFetch ==
    \A k \in Slots :
        (calls[k].pc # "idle" /\ calls[k].code \notin DOMAIN COUNTRY_FILE_MAP) =>
            /\ calls[k].pc = "failed"
            /\ ~calls[k].fetched
            /\ calls[k].err.i18nKey = "error.noCountryRules"

\* C19 (as the specification states it): the error of a failed load
\* carries cause network, http, invalid_json or missing_years for a
\* rejected fetch, a response that is not ok, a body that does not parse
\* and a document without years; an empty or unmapped code fails before
\* any fetch.
C19_CauseOfEveryFailure ==
    /\ \A k \in FailedLoads :
           /\ CauseAsStated(k)
           /\ calls[k].response = "not_ok" => calls[k].err.cause = "http"
    /\ FailsBeforeFetch

\* C19 (amended): as above, but for a response that is not ok the details
\* carry the status of the response and no cause; no other error of
\* loadCountryRules carries a status.
C19_CauseOrStatusOfEveryFailure ==
    /\ \A k \in FailedLoads :
           /\ CauseAsStated(k)
           /\ calls[k].response = "not_ok" => calls[k].err.cause = ""
           /\ calls[k].err.status <=> calls[k].response = "not_ok"
    /\ FailsBeforeFetch

\* A load failed on a response that was not ok.
C19_Witness ==
    \E k \in FailedLoads :
        /\ calls[k].code = "DE"
        /\ calls[k].fetched
        /\ calls[k].response = "not_ok"
        /\ calls[k].err = StatusError

(***************************************************************************)
(* Properties of the taxable income.                                       *)
(***************************************************************************)
\* The rule a reported contribution was computed from: the scheme of that
\* name, or the entry of the other list.
SchemeOf(h, social, id) ==
    IF id \in KeysOf(h, social) \ {"other"} THEN Get(h, social, id)
    ELSE LET other == Get(h, social, "other")[2]
         IN other[CHOOSE i \in 1..Len(other) : OtherId(i) = id]

\* The reported employee amounts of the schemes flagged deductible_for_tax.
DeductibleReported(h, social, employeeContribById) ==
    QSum([id \in DOMAIN employeeContribById |->
             IF Truthy(Get(h, SchemeOf(h, social, id), "deductible_for_tax"))
             THEN employeeContribById[id] ELSE Zero])

\* The results for a country other than FR.
ResultOutsideFR ==
    /\ salary.called /\ salary.ok
    /\ salary.result.meta.countryCode # Str("FR")

\* C20: outside FR the reported taxable income is annual gross less the
\* employee amounts of the schemes flagged deductible_for_tax and less the
\* allowances, and zero when that is negative; no other employee amount
\* and no employer amount enters.
C20_TaxableIncome ==
    ResultOutsideFR =>
        LET a == salary.result.annual
            social == Get(salary.after, salary.result.taxContext, "socialContributions")
        IN a.taxableIncome =
               QMax(Zero, QSub(QSub(a.gross,
                                    DeductibleReported(salary.after, social,
                                                       a.employeeContribById)),
                               a.allowances))

\* A result with a deductible and a non-deductible employee amount, an
\* employer amount and allowances.
C20_Witness ==
    /\ ResultOutsideFR
    /\ LET a == salary.result.annual
           h == salary.after
           social == Get(h, salary.result.taxContext, "socialContributions")
           flagged(id) == Truthy(Get(h, SchemeOf(h, social, id), "deductible_for_tax"))
       IN /\ \E id \in DOMAIN a.employeeContribById :
                 flagged(id) /\ QLt(Zero, a.employeeContribById[id])
          /\ \E id \in DOMAIN a.employeeContribById :
                 ~flagged(id) /\ QLt(Zero, a.employeeContribById[id])
          /\ QLt(Zero, a.employerContribTotal)
          /\ QLt(Zero, a.allowances)
          /\ QLt(Zero, a.taxableIncome)

(***************************************************************************)
(* Properties of the tax class diagnostic.                                 *)
(***************************************************************************)
\* JSON.stringify(a) === JSON.stringify(b), a held by heap ha and b by hb.
RECURSIVE SameJsonAcross(_, _, _, _)
SameJsonAcross(ha, a, hb, b) ==
    IF a[1] # b[1] THEN FALSE
    ELSE IF a[1] = "ref"
         THEN /\ DOMAIN ha[a[2]] = DOMAIN hb[b[2]]
              /\ \A k \in DOMAIN ha[a[2]] : SameJsonAcross(ha, ha[a[2]][k], hb, hb[b[2]][k])
         ELSE a[2] = b[2]

\* The year's rules the last buildTaxContext call resolved, in the heap it
\* started from, and the overrides of the class it was given.
BuiltYearRules == resolveYearRules(built.before, rulesCache[built.code], built.o.year)

BuiltClass ==
    IF Truthy(built.o.taxClass) THEN trim(toUpperCase(String(built.o.taxClass))) ELSE ""

BuiltClassOverrides == Get(built.before, Get(built.before, BuiltYearRules, "tax_classes"), BuiltClass)

\* The last buildTaxContext call was for DE, a year with rules and a class
\* the year's rules know.
BuiltForRecognizedClass ==
    /\ built.called /\ built.code = "DE"
    /\ Truthy(BuiltYearRules)
    /\ BuiltClass # ""
    /\ Truthy(BuiltClassOverrides)

\* The merged income tax rules of that call are, as JSON, the year's income
\* tax rules as they were before the call.
MergedAsBaseBefore ==
    LET top == TopLevelBlocks(built.before, BuiltYearRules)
        merged == ApplyTaxClass(top.h, BuiltClassOverrides, top.incomeTax, top.social,
                                top.other)
    IN SameJsonAcross(merged.h, merged.incomeTax, built.before, top.incomeTax)

\* C21 (as the specification states it): under DEBUG_STRICT buildTaxContext
\* for a recognized DE class throws tax_class_no_effect exactly when the
\* merged income tax rules, the injected adjustment included, are
\* identical to the year's rules as they were before the call; without
\* DEBUG_STRICT it never throws that error.
C21_NoEffectIffIdentical ==
    BuiltForRecognizedClass =>
        IF DEBUG_STRICT
        THEN (~built.ok /\ built.err.cause = "tax_class_no_effect") <=> MergedAsBaseBefore
        ELSE built.ok

(***************************************************************************)
(* Properties of the tax credits.                                          *)
(***************************************************************************)
\* The tax credit rules of the year of a result, in the heap after the call.
CreditRules ==
    Get(salary.after,
        Get(salary.after, Get(salary.after, salary.result.taxContext, "yearRules"),
            "income_tax"),
        "tax_credits")

\* A result for a year whose income tax rules define tax credits.
ResultWithCredits == salary.called /\ salary.ok /\ Truthy(CreditRules)

\* C22: where the year's rules define tax credits, the income tax total is
\* the tax of the schedule on the taxable income less the credits, and zero
\* where the credits are more; every credit is non-negative and the
\* credits add up to their total.
C22_CreditsNeverRefund ==
    ResultWithCredits =>
        LET r == salary.result
            before == BracketSumTax(salary.after, Get(salary.after, r.taxContext, "incomeTax"),
                                    r.annual.taxableIncome, r.meta.currencyDecimals,
                                    r.meta.roundingMode)
        IN /\ \A id \in DOMAIN r.incomeTax.credits.byId :
                  QLe(Zero, r.incomeTax.credits.byId[id])
           /\ r.incomeTax.credits.total = QSum(r.incomeTax.credits.byId)
           /\ r.incomeTax.total = QMax(Zero, QSub(before, r.incomeTax.credits.total))
           /\ QLe(Zero, r.incomeTax.total)
           /\ QLe(Zero, r.annual.incomeTaxTotal)

\* Credits of 3,000 against a tax of 2,160: no income tax, no refund.
C22_Witness ==
    /\ ResultWithCredits
    /\ salary.result.annual.gross = Q(6000, 1)
    /\ salary.result.incomeTax.credits.total = Q(3000, 1)
    /\ salary.result.incomeTax.total = Zero
    /\ salary.result.annual.net = Q(5826, 1)

(***************************************************************************)
(* Properties of the French taxable income.                                *)
(***************************************************************************)
\* A result for FR, and the professional deduction of its year's rules.
ResultForFR ==
    /\ salary.called /\ salary.ok
    /\ salary.result.meta.countryCode = Str("FR")

DeductionRules ==
    Get(salary.after,
        Get(salary.after, Get(salary.after, salary.result.taxContext, "yearRules"),
            "income_tax"),
        "professional_deduction")

\* x within the band [lo, hi].
Clamped(x, lo, hi) == IF QLt(x, lo) THEN lo ELSE IF QLt(hi, x) THEN hi ELSE x

\* C23: for FR the taxable income is max(0, N - D), N being the annual
\* gross less all employee contributions, not below zero, and D being N
\* times the rate, within the band of min and max; with the deduction
\* disabled it is N; allowances and deductible flags do not enter.  The
\* amounts are the reported ones, each rounded to the cent, so the two
\* sides agree to the cent.
C23_FrenchTaxableIncome ==
    ResultForFR =>
        LET a == salary.result.annual
            d == DeductionRules
            n == QMax(Zero, QSub(a.gross, QSum(a.employeeContribById)))
            band == Clamped(QMul(n, Get(salary.after, d, "rate")[2]),
                            Get(salary.after, d, "min")[2], Get(salary.after, d, "max")[2])
        IN Within(a.taxableIncome,
                  IF Get(salary.after, d, "enabled") = Bool(FALSE) THEN n
                  ELSE QMax(Zero, QSub(n, band)),
                  Q(1, 100))

\* 36,000 a year, contributions of 3,600, a deduction at its maximum of
\* 3,000: taxable income 29,400, allowances of 1,000 notwithstanding.
C23_Witness ==
    /\ ResultForFR
    /\ Get(salary.after, DeductionRules, "enabled") = Bool(TRUE)
    /\ salary.result.annual.gross = Q(36000, 1)
    /\ salary.result.annual.employeeContribTotal = Q(3600, 1)
    /\ salary.result.annual.allowances = Q(1000, 1)
    /\ salary.result.annual.taxableIncome = Q(29400, 1)

(***************************************************************************)
(* Properties of the formula registry.                                     *)
(***************************************************************************)
\* A register call whose arguments the registry accepts.
ValidRegistration(r) ==
    /\ r.methodName[1] = "str" /\ r.methodName[2] # ""
    /\ r.fn[1] = "fn"

\* The register calls that named the method with a function, in order.
ValidFor(name) ==
    {i \in 1..Len(registrations) :
        ValidRegistration(registrations[i]) /\ registrations[i].methodName = Str(name)}

\* The function last registered under the name, by the page or by a
\* caller; "" when nobody registered one.
LastRegistered(name) ==
    IF ValidFor(name) # {}
    THEN registrations[CHOOSE i \in ValidFor(name) : \A j \in ValidFor(name) : j <= i].fn[2]
    ELSE IF name = "de_estg_2026" THEN "deEstg2026"
    ELSE IF name = "se_job_credit_2026" THEN "seJobCredit2026"
    ELSE ""

\* The names get is asked for: the registered ones and others.
LookedUp == {"custom", "de_estg_2026", "se_job_credit_2026", "never_registered"}

\* C24: after any sequence of register calls get(name) returns the function
\* of the most recent valid registration of the name and null for a name
\* never registered, no call removes a name, and a call with an empty or
\* non-string name or with a value that is no function changes nothing.
C24_LastValidRegistrationWins ==
    /\ \A name \in LookedUp : get(registryObj, Str(name)) = LastRegistered(name)
    /\ \A i \in 1..Len(registrations) :
        LET r == registrations[i]
        IN /\ DOMAIN r.before \subseteq DOMAIN r.after
           /\ ~ValidRegistration(r) => r.after = r.before

\* "custom" was registered twice with different functions, a third call
\* passed no function, and get returns the second function.
C24_Witness ==
    /\ Len(registrations) = 3
    /\ registrations[1].methodName = Str("custom") /\ registrations[1].fn = Fn("first")
    /\ registrations[2].methodName = Str("custom") /\ registrations[2].fn = Fn("second")
    /\ registrations[3].methodName = Str("custom") /\ registrations[3].fn = Str("first")
    /\ get(registryObj, Str("custom")) = "second"
    /\ get(registryObj, Str("never_registered")) = ""

(***************************************************************************)
(* Properties of the context computeSalary is given.                       *)
(***************************************************************************)
\* The context of the last computeSalary call, an object.
GivenContext == salary.options.taxContext

\* C25: computeSalary never modifies the TaxContext it is given: every
\* field of the context, socialContributions, childrenCount and calcMode
\* among them, and every object it holds is after the call what it was
\* before, whether the call returned a result or threw.
C25_ContextNotModified ==
    (salary.called /\ IsRef(GivenContext)) =>
        \A i \in Reach(salary.before, GivenContext) : salary.after[i] = salary.before[i]

(***************************************************************************)
(* Properties of the contribution ceilings of the two portions (AT).       *)
(***************************************************************************)
\* The schemes of contribution rules: the named keys and the entries of
\* the other list, by the id they are reported under.
SchemeIds(h, sc) ==
    LET other == Get(h, sc, "other")
    IN (KeysOf(h, sc) \ {"other"})
           \cup (IF IsArr(other) THEN {OtherId(i) : i \in 1..Len(other[2])} ELSE {})

SchemeEntry(h, sc, id) ==
    IF id \in KeysOf(h, sc) THEN Get(h, sc, id)
    ELSE LET other == Get(h, sc, "other")[2]
         IN other[CHOOSE i \in 1..Len(other) : OtherId(i) = id]

\* The last call split an AT salary into the two portions, with a context
\* whose socialContributions are populated.
SplitWithSchemes ==
    /\ SplitResult
    /\ IsRef(Get(salary.before, GivenContext, "socialContributions"))

\* The amount a capped scheme reports for a rate on the regular and a rate
\* on the special portion.
CappedAmount(id, regularRate, specialRate) ==
    LET h == salary.before
        r == salary.result
        entry == SchemeEntry(h, Get(h, GivenContext, "socialContributions"), id)
        caps == Get(h, Get(h, Get(h, GivenContext, "yearRules"), "special_payments"),
                    "social_contributions")
    IN roundCurrency(
           QAdd(QMul(regularRate, CutAt(h, r.at.regularGrossAnnual, entry,
                                        Get(h, caps, "regular_ceiling_annual"))),
                QMul(specialRate, CutAt(h, r.at.specialGrossAnnual, entry,
                                        Get(h, caps, "special_ceiling_annual")))),
           r.meta.currencyDecimals, r.meta.roundingMode)

\* The scheme's amounts are those of the capped bases.
Capped(id) ==
    LET h == salary.before
        r == salary.result
        entry == SchemeEntry(h, Get(h, GivenContext, "socialContributions"), id)
        rate(key) == Number(Or(Get(h, entry, key), Num(0)))
        tiers == Get(h, entry, "low_income_employee_rate_tiers")
        regularRate == IF IsArr(tiers)
                       THEN RateOfFirstTier(h, entry, QDiv(r.at.regularGrossAnnual, Q(12, 1)))
                       ELSE rate("employee_rate")
    IN /\ r.annual.employeeContribById[id]
              = CappedAmount(id, regularRate, rate("employee_rate"))
       /\ r.annual.employerContribById[id]
              = CappedAmount(id, rate("employer_rate"), rate("employer_rate"))

\* The schemes that apply.
Applying ==
    LET h == salary.before
        sc == Get(h, GivenContext, "socialContributions")
    IN {id \in SchemeIds(h, sc) : Truthy(Get(h, SchemeEntry(h, sc, id), "applies"))}

\* C26: in the AT special-payment path every applying scheme, named or of
\* the other list, has the base of its regular portion capped at
\* regular_ceiling_annual and that of its special portion at
\* special_ceiling_annual, and reports the sum of the two amounts.
C26_EverySchemeCapped ==
    SplitWithSchemes => \A id \in Applying : Capped(id)

\* The same of the schemes the code names and of the other list.
C26_NamedThreeAndOthersCapped ==
    SplitWithSchemes =>
        \A id \in Applying :
            (id \in {"health", "pension", "unemployment"} \/ id \notin KeysOf(salary.before, Get(salary.before, GivenContext, "socialContributions")))
                => Capped(id)

(***************************************************************************)
(* Properties of the base of the other taxes.                              *)
(***************************************************************************)
\* The rules of the other taxes of the context of the last call.
LevyRules == Get(salary.before, GivenContext, "otherTaxes")

\* The levies that apply.
Levies ==
    {id \in KeysOf(salary.before, LevyRules) :
        /\ IsObject(Get(salary.before, LevyRules, id))
        /\ Get(salary.before, Get(salary.before, LevyRules, id), "applies") # Bool(FALSE)}

BasisOf(id) ==
    Or(Get(salary.before, Get(salary.before, LevyRules, id), "basis"), Str("gross"))

\* The amount of a levy on a base: the rate, or the taper of a levy on the
\* income tax, up to the cap.
LevyOn(id, base) ==
    LET h == salary.before
        rule == Get(h, LevyRules, id)
        n(key) == Number(Get(h, rule, key))
        has(key) == IsFiniteNumber(Get(h, rule, key))
        byRate == IF has("rate") THEN QMul(base, n("rate")) ELSE Zero
        tapered ==
            IF has("free_threshold") /\ has("taper_rate") /\ has("standard_rate")
               /\ BasisOf(id) = Str("income_tax")
            THEN IF QLe(base, n("free_threshold")) THEN Zero
                 ELSE QMin(QMul(QSub(base, n("free_threshold")), n("taper_rate")),
                           QMul(base, n("standard_rate")))
            ELSE byRate
        cap == IF ~IsNullish(Get(h, rule, "cap")) THEN Get(h, rule, "cap")
               ELSE Get(h, rule, "max")
    IN IF ~IsNullish(cap) /\ QLe(Zero, Number(cap)) /\ QLt(Number(cap), tapered)
       THEN Number(cap) ELSE tapered

\* Every levy of the last result is, to one unit of the currency
\* precision, the levy on the reported base of its basis, unrecognized
\* being the base of a basis the engine does not know.
LeviesOn(unrecognized) ==
    (salary.called /\ salary.ok /\ IsRef(LevyRules)) =>
        LET a == salary.result.annual
            unit == Q(1, Pow10(salary.result.meta.currencyDecimals[2][1]))
            base(id) ==
                CASE BasisOf(id) = Str("gross") -> a.gross
                  [] BasisOf(id) = Str("taxable_income") -> a.taxableIncome
                  [] BasisOf(id) = Str("income_tax") -> a.incomeTaxTotal
                  [] OTHER -> unrecognized
        IN \A id \in Levies :
               Within(salary.result.otherTaxes.byId[id], LevyOn(id, base(id)), unit)

\* C27: computeOtherTaxesAnnual takes the gross as base for basis 'gross',
\* the taxable income for 'taxable_income' and the income tax total for
\* 'income_tax'; a levy on any other basis amounts to 0.
C27_UnrecognizedBasisIsZero == LeviesOn(Zero)

\* The same with the gross as the base of an unrecognized basis.
C27_UnrecognizedBasisIsGross ==
    (salary.called /\ salary.ok) => LeviesOn(salary.result.annual.gross)

(***************************************************************************)
(* Properties of buildTaxContext across calls.                             *)
(***************************************************************************)
\* What the last buildTaxContext call returns when no call was made
\* before it: the call on the document as it was parsed.
BuiltFirst ==
    BuildContext(pristine, built.code, rulesCache[built.code], built.o, DEBUG_STRICT)

\* C28: the context buildTaxContext returns for given options is the same
\* whatever buildTaxContext calls were made earlier: it is, as JSON, the
\* context the call returns when it is the first one, and the call throws
\* when that one throws.
C28_ContextIndependentOfEarlierCalls ==
    built.called =>
        /\ built.ok = BuiltFirst.ok
        /\ built.ok => SameJsonAcross(built.after, built.ctx, BuiltFirst.h, BuiltFirst.ctx)

(***************************************************************************)
(* Properties of failed loads and the cache.                               *)
(***************************************************************************)
\* The invocation recorded in k fails in this step, after its fetch.
FailsNow(k) ==
    calls[k].pc \in {"fetch", "json"} /\ calls'[k].pc = "failed"

\* C29: a loadCountryRules call that fails (transport error, status that
\* is not ok, invalid JSON or missing years) leaves the cache and the cached
\* documents as they were; a call made for the same code after the
\* failure, nothing being cached for the code, fetches anew; and every
\* cached entry is a document with years, never a failure or a partial
\* document.
C29_FailedLoadCachesNothing ==
    /\ [][\A k \in Slots : FailsNow(k) => (rulesCache' = rulesCache /\ heap' = heap)]_vars
    /\ [](\A k \in Slots : (calls[k].retry /\ ~calls[k].late) => calls[k].fetched)
    /\ [](\A c \in DOMAIN rulesCache :
             IsRef(rulesCache[c]) /\ Truthy(Get(heap, rulesCache[c], "years")))

\* A call made after a load of DE had failed on a document without years
\* fetched anew and left the document it got in the cache.
C29_Witness ==
    \E k \in Slots :
        /\ calls[k].code = "DE" /\ calls[k].retry /\ ~calls[k].late
        /\ calls[k].fetched /\ calls[k].pc = "done"
        /\ "DE" \in DOMAIN rulesCache
        /\ rulesCache["DE"] = calls[k].doc

(***************************************************************************)
(* Properties of the monthly column.                                       *)
(***************************************************************************)
\* The rows both columns report as one amount.
Rows ==
    {"gross", "benefits", "employeeContribTotal", "employerContribTotal", "allowances",
     "taxableIncome", "incomeTaxTotal", "otherTaxesTotal", "taxesTotal", "net", "tco"}

\* Twelve times the monthly amount is the annual amount, up to the
\* rounding of the monthly amount (half a unit of the currency precision,
\* twelve times) and of the annual one.
TwelfthOf(monthlyAmount, annualAmount) ==
    Within(QMul(Q(12, 1), monthlyAmount), annualAmount,
           Q(7, Pow10(salary.result.meta.currencyDecimals[2][1])))

\* The rows given and the contributions by scheme are a twelfth of the
\* annual ones.
MonthlyIsTwelfth(rows) ==
    LET a == salary.result.annual
        m == salary.result.monthly
    IN /\ \A row \in rows : TwelfthOf(m[row], a[row])
       /\ \A id \in DOMAIN a.employeeContribById :
              TwelfthOf(m.employeeContribById[id], a.employeeContribById[id])
       /\ \A id \in DOMAIN a.employerContribById :
              TwelfthOf(m.employerContribById[id], a.employerContribById[id])

\* C30: in every result the monthly column is the annual column divided
\* by 12 in every row, gross included (monthly.gross * 12 = annual.gross up
\* to rounding), for monthly and yearly input and any number of salary
\* months.
C30_MonthlyIsAnnualByTwelve ==
    (salary.called /\ salary.ok) => MonthlyIsTwelfth(Rows)

\* The same of every row but gross, and of gross unless a monthly salary
\* is paid more than twelve times.
C30_MonthlyButEnteredGross ==
    (salary.called /\ salary.ok) =>
        /\ MonthlyIsTwelfth(Rows \ {"gross"})
        /\ (salary.result.at.split /\ salary.options.salaryPeriod = Str("monthly"))
               \/ TwelfthOf(salary.result.monthly.gross, salary.result.annual.gross)

====
